---------------------------- MODULE Spec2Model ----------------------------
(***************************************************************************)
(* A model of hazo_connect: the QueryBuilder descriptor, the SQLite        *)
(* statement translator (query-translator.ts) and the sql.js execution     *)
(* adapter (sqlite-adapter.ts).                                            *)
(*                                                                         *)
(* Text is modelled as a sequence of one-character strings, so that the    *)
(* regular expressions, splits and trims of the source are computed and    *)
(* not assumed.  JavaScript values are pairs <<kind, value>> of kind:      *)
(*   null, undef, num (an integer), frac (a non-integer number),           *)
(*   bool, str (a text), date (the ISO text), arr (a sequence),            *)
(*   obj (a sequence of [key, val] entries in key order).                  *)
(* A function that may throw returns [ok, v, err].                         *)
(***************************************************************************)
EXTENDS Integers, Sequences, FiniteSets, TLC

----------------------------------------------------------------------------
(* Characters and text                                                      *)

UpperChars == <<"A", "B", "C", "D", "E", "F", "G", "H", "I", "J", "K", "L", "M", "N", "O", "P", "Q", "R", "S", "T", "U", "V", "W", "X", "Y", "Z">>
LowerChars == <<"a", "b", "c", "d", "e", "f", "g", "h", "i", "j", "k", "l", "m", "n", "o", "p", "q", "r", "s", "t", "u", "v", "w", "x", "y", "z">>
DigitChars == <<"0", "1", "2", "3", "4", "5", "6", "7", "8", "9">>

Range(s) == {s[i] : i \in 1..Len(s)}

IsUpper(c) == c \in Range(UpperChars)
IsLower(c) == c \in Range(LowerChars)
IsDigit(c) == c \in Range(DigitChars)
\* \s of the regular expressions and the characters String.prototype.trim strips
IsSpace(c) == c \in {" ", "\t", "\n"}

IndexIn(c, s) == CHOOSE i \in 1..Len(s) : s[i] = c
ToLowerChar(c) == IF IsUpper(c) THEN LowerChars[IndexIn(c, UpperChars)] ELSE c
ToUpperChar(c) == IF IsLower(c) THEN UpperChars[IndexIn(c, LowerChars)] ELSE c
\* a variant that leaves the case alone
ToLowerKept(s) == s
ToLower(s) == [i \in 1..Len(s) |-> ToLowerChar(s[i])]
ToUpper(s) == [i \in 1..Len(s) |-> ToUpperChar(s[i])]

SetMin(S) == CHOOSE x \in S : \A y \in S : x <= y
SetMax(S) == CHOOSE x \in S : \A y \in S : y <= x

Trim(s) ==
  LET keep == {i \in 1..Len(s) : ~IsSpace(s[i])}
  IN  IF keep = {} THEN <<>> ELSE SubSeq(s, SetMin(keep), SetMax(keep))

StartsWith(s, p) == Len(s) >= Len(p) /\ SubSeq(s, 1, Len(p)) = p
Includes(s, p) == \E i \in 1..(Len(s) - Len(p) + 1) : SubSeq(s, i, i + Len(p) - 1) = p
Contains(s, c) == \E i \in 1..Len(s) : s[i] = c

RECURSIVE Concat(_)
Concat(ss) == IF ss = <<>> THEN <<>> ELSE Head(ss) \o Concat(Tail(ss))

RECURSIVE JoinWith(_, _)
JoinWith(ss, sep) ==
  IF ss = <<>> THEN <<>>
  ELSE IF Len(ss) = 1 THEN ss[1]
  ELSE ss[1] \o sep \o JoinWith(Tail(ss), sep)

\* String.prototype.split(ch) for a one-character separator: "" gives [""]
RECURSIVE SplitChar(_, _)
SplitChar(s, ch) ==
  IF ~Contains(s, ch) THEN <<s>>
  ELSE LET p == SetMin({i \in 1..Len(s) : s[i] = ch})
       IN  <<SubSeq(s, 1, p - 1)>> \o SplitChar(SubSeq(s, p + 1, Len(s)), ch)

\* String.prototype.split(/\s+/): a maximal run of whitespace is one separator
RECURSIVE SplitSpaces(_)
SplitSpaces(s) ==
  IF \A i \in 1..Len(s) : ~IsSpace(s[i]) THEN <<s>>
  ELSE LET p == SetMin({i \in 1..Len(s) : IsSpace(s[i])})
           rest == {i \in (p + 1)..Len(s) : ~IsSpace(s[i])}
           q == IF rest = {} THEN Len(s) + 1 ELSE SetMin(rest)
       IN  <<SubSeq(s, 1, p - 1)>> \o SplitSpaces(SubSeq(s, q, Len(s)))

\* String(n) of a non-negative integer
RECURSIVE NatToText(_)
NatToText(n) ==
  IF n < 10 THEN <<DigitChars[n + 1]>>
  ELSE NatToText(n \div 10) \o <<DigitChars[(n % 10) + 1]>>

IntToText(n) == IF n < 0 THEN <<"-">> \o NatToText(0 - n) ELSE NatToText(n)

Ok(v) == [v |-> v, ok |-> TRUE, err |-> "none"]
Err(kind) == [v |-> <<>>, ok |-> FALSE, err |-> kind]

\* results of a map over a sequence whose callback may throw: the first error, or all values
FirstError(rs) == rs[SetMin({i \in 1..Len(rs) : ~rs[i].ok})]
AllOk(rs) == \A i \in 1..Len(rs) : rs[i].ok
Values(rs) == [i \in 1..Len(rs) |-> rs[i].v]

\* a function that throws is a function that returns [ok, v, err]; Bind continues with
\* the value of a call that returned and passes on the throw of one that did not
Bind(r, Continue(_)) == IF r.ok THEN Continue(r.v) ELSE r
\* the same for the calls of a loop: the first throw is the one passed on
BindAll(rs, Continue(_)) == IF AllOk(rs) THEN Continue(Values(rs)) ELSE FirstError(rs)

----------------------------------------------------------------------------
(* JavaScript values                                                        *)

JsNull == <<"null", 0>>
JsUndef == <<"undef", 0>>
JsNum(n) == <<"num", n>>
JsFrac == <<"frac", 0>>
JsBool(b) == <<"bool", b>>
JsStr(s) == <<"str", s>>
JsDate(iso) == <<"date", iso>>
JsArr(vs) == <<"arr", vs>>
JsObj(entries) == <<"obj", entries>>

Entry(key, val) == [key |-> key, val |-> val]
ObjectKeys(o) == [i \in 1..Len(o[2]) |-> o[2][i].key]
\* o[key]: the property's value, undefined when the object has no such key
Prop(o, key) ==
  IF \E i \in 1..Len(o[2]) : o[2][i].key = key
  THEN o[2][CHOOSE i \in 1..Len(o[2]) : o[2][i].key = key].val
  ELSE JsUndef

\* String(value), for the kinds of value a condition may carry
RECURSIVE ToStringJs(_)
ToStringJs(x) ==
  CASE x[1] = "null"  -> <<"n", "u", "l", "l">>
    [] x[1] = "undef" -> <<"u", "n", "d", "e", "f", "i", "n", "e", "d">>
    [] x[1] = "num"   -> IntToText(x[2])
    [] x[1] = "frac"  -> <<"1", ".", "5">>
    [] x[1] = "bool"  -> IF x[2] THEN <<"t", "r", "u", "e">> ELSE <<"f", "a", "l", "s", "e">>
    [] x[1] = "str"   -> x[2]
    [] x[1] = "date"  -> <<"T", "h", "u", " ", "J", "a", "n", " ", "0", "1", " ", "1", "9", "7", "0">>
    [] x[1] = "arr"   -> \* Array.prototype.join: a null or undefined element gives ""
                         JoinWith([i \in 1..Len(x[2]) |->
                                     IF x[2][i][1] \in {"null", "undef"} THEN <<>> ELSE ToStringJs(x[2][i])],
                                  <<",">>)
    [] OTHER         -> <<"[", "o", "b", "j", "e", "c", "t", " ", "O", "b", "j", "e", "c", "t", "]">>

----------------------------------------------------------------------------
(* utils/sqlite-utils.ts                                                    *)

\* a variant that lets a name start with a digit
identifierPatternAnyStart(s) ==
  /\ Len(s) >= 1
  /\ \A i \in 1..Len(s) : IsUpper(s[i]) \/ IsLower(s[i]) \/ IsDigit(s[i]) \/ s[i] = "_"

\* identifierPattern = /^[A-Za-z_][A-Za-z0-9_]*$/
identifierPattern(s) ==
  /\ Len(s) >= 1
  /\ (IsUpper(s[1]) \/ IsLower(s[1]) \/ s[1] = "_")
  /\ \A i \in 2..Len(s) : IsUpper(s[i]) \/ IsLower(s[i]) \/ IsDigit(s[i]) \/ s[i] = "_"

validateIdentifier(identifier) == identifierPattern(identifier)

quoteIdentifier(identifier) ==
  LET Quote(parts) ==
        IF Len(parts) = 0 THEN Err("Error")
        ELSE IF \E i \in 1..Len(parts) : ~identifierPattern(parts[i]) THEN Err("Error")
        ELSE Ok(JoinWith([i \in 1..Len(parts) |-> <<"\"">> \o parts[i] \o <<"\"">>], <<".">>))
  IN  Quote(SplitChar(identifier, "."))

\* a variant that passes every value through unchanged
normalizeValueKept(value) == value

normalizeValue(value) ==
  CASE value[1] = "undef" -> JsNull
    [] value[1] = "date"  -> JsStr(value[2])
    [] value[1] = "bool"  -> JsNum(IF value[2] THEN 1 ELSE 0)
    [] OTHER             -> value

isPlainObject(value) == value[1] = "obj"

----------------------------------------------------------------------------
(* sqlite/query-translator.ts: identifiers, conditions, WHERE               *)

\* a QueryBuilder as the translator reads it through the accessors
Descriptor(table, fields, conditions, orGroups, orderBy, limit, offset, joins, nested) ==
  [table |-> table, orderBy |-> orderBy,
   joins |-> joins, selectFields |-> fields,
   whereConditions |-> conditions, whereOrConditions |-> orGroups, limitValue |-> limit,
   offsetValue |-> offset, nestedSelects |-> nested]

Cond(field, operator, value) == [value |-> value, field |-> field, operator |-> operator]

\* quoteIdentifier's Error rethrown as a SqliteTranslationError
quoteIdentifierLocal(identifier) ==
  LET Rethrow(r) == IF r.ok THEN r ELSE Err("SqliteTranslationError")
  IN  Rethrow(quoteIdentifier(identifier))

quoteQualifiedIdentifier(identifier) ==
  LET Quote(parts) ==
        IF \E i \in 1..Len(parts) : parts[i] = <<"*">> THEN Err("SqliteTranslationError")
        ELSE BindAll([i \in 1..Len(parts) |-> quoteIdentifierLocal(parts[i])],
                     LAMBDA quoted : Ok(JoinWith(quoted, <<".">>)))
  IN  Quote(SplitChar(identifier, "."))

quoteColumnName(column) ==
  IF Contains(column, ".") THEN Err("SqliteTranslationError")
  ELSE quoteIdentifierLocal(column)

resolveTableName(builder) ==
  IF builder.table[1] = "null" \/ builder.table[2] = <<>>
  THEN Err("SqliteTranslationError")
  ELSE Ok(builder.table[2])

Clause(clause, params) == [clause |-> clause, params |-> params]

\* a variant that joins the placeholders with a comma alone
PlaceholdersPacked(n) == JoinWith([i \in 1..n |-> <<"?">>], <<",">>)

Placeholders(n) == JoinWith([i \in 1..n |-> <<"?">>], <<",", " ">>)

\* the switch of translateCondition, the field already quoted
ConditionSwitch(field, condition) ==
  LET operator == condition.operator
      value == condition.value
      normalizedValue == normalizeValue(value)
      isNullish == value[1] \in {"null", "undef"}
      One(op) == Ok(Clause(field \o op, <<normalizedValue>>))
  IN  CASE operator = "eq" ->
             IF isNullish THEN Ok(Clause(field \o <<" ", "I", "S", " ", "N", "U", "L", "L">>, <<>>))
             ELSE One(<<" ", "=", " ", "?">>)
        [] operator = "neq" ->
             IF isNullish THEN Ok(Clause(field \o <<" ", "I", "S", " ", "N", "O", "T", " ", "N", "U", "L", "L">>, <<>>))
             ELSE One(<<" ", "!", "=", " ", "?">>)
        [] operator = "gt"  -> One(<<" ", ">", " ", "?">>)
        [] operator = "gte" -> One(<<" ", ">", "=", " ", "?">>)
        [] operator = "lt"  -> One(<<" ", "<", " ", "?">>)
        [] operator = "lte" -> One(<<" ", "<", "=", " ", "?">>)
        [] operator = "like" ->
             Ok(Clause(field \o <<" ", "L", "I", "K", "E", " ", "?">>, <<JsStr(ToStringJs(normalizedValue))>>))
        [] operator = "ilike" ->
             Ok(Clause(<<"L", "O", "W", "E", "R", "(">> \o field \o <<")", " ", "L", "I", "K", "E", " ", "L", "O", "W", "E", "R", "(", "?", ")">>,
                       <<JsStr(ToStringJs(normalizedValue))>>))
        [] operator = "in" ->
             LET values == IF value[1] = "arr" THEN value[2] ELSE <<value>>
             IN  IF Len(values) = 0 THEN Ok(Clause(<<"1", "=", "0">>, <<>>))
                 ELSE Ok(Clause(field \o <<" ", "I", "N", " ", "(">> \o Placeholders(Len(values)) \o <<")">>,
                                [i \in 1..Len(values) |-> normalizeValue(values[i])]))
        [] operator = "is" ->
             LET valueString == IF isNullish THEN <<"n", "u", "l", "l">> ELSE ToLower(ToStringJs(value))
             IN  IF valueString = <<"n", "u", "l", "l">> THEN Ok(Clause(field \o <<" ", "I", "S", " ", "N", "U", "L", "L">>, <<>>))
                 ELSE IF valueString = <<"n", "o", "t", ".", "n", "u", "l", "l">> \/ valueString = <<"n", "o", "t", " ", "n", "u", "l", "l">>
                 THEN Ok(Clause(field \o <<" ", "I", "S", " ", "N", "O", "T", " ", "N", "U", "L", "L">>, <<>>))
                 ELSE Err("SqliteTranslationError")
        [] OTHER -> Err("SqliteTranslationError")

translateCondition(condition) ==
  Bind(quoteQualifiedIdentifier(condition.field),
       LAMBDA field : ConditionSwitch(field, condition))

\* the fragments that are not empty, with their params in order
KeptClauses(translations) == SelectSeq(Values(translations), LAMBDA c : c.clause # <<>>)
ClauseParams(kept) == Concat([i \in 1..Len(kept) |-> kept[i].params])

\* a variant that puts every fragment of a group in parentheses, a single one too
JoinGroupEach(kept) ==
  IF Len(kept) = 0 THEN Ok(Clause(<<>>, <<>>))
  ELSE Ok(Clause(<<"(">> \o JoinWith([i \in 1..Len(kept) |-> <<"(">> \o kept[i].clause \o <<")">>],
                                     <<" ", "O", "R", " ">>) \o <<")">>,
                 ClauseParams(kept)))

\* the end of one OR-group of buildWhereClause: a single fragment stays as it is, several
\* are each put in parentheses and joined by OR, and the group is put in parentheses
JoinGroup(kept) ==
  LET joinedGroup == IF Len(kept) = 1 THEN kept[1].clause
                     ELSE JoinWith([i \in 1..Len(kept) |-> <<"(">> \o kept[i].clause \o <<")">>],
                                   <<" ", "O", "R", " ">>)
  IN  IF Len(kept) = 0 THEN Ok(Clause(<<>>, <<>>))
      ELSE Ok(Clause(<<"(">> \o joinedGroup \o <<")">>, ClauseParams(kept)))

GroupResult(translations) ==
  IF ~AllOk(translations) THEN FirstError(translations)
  ELSE JoinGroup(KeptClauses(translations))

\* one OR-group of buildWhereClause
GroupClause(group) ==
  GroupResult([i \in 1..Len(group) |-> translateCondition(group[i])])

\* the end of buildWhereClause: the fragments joined by AND behind " WHERE "
JoinWhere(kept) ==
  IF Len(kept) = 0 THEN Ok(Clause(<<>>, ClauseParams(kept)))
  ELSE Ok(Clause(<<" ", "W", "H", "E", "R", "E", " ">> \o JoinWith([i \in 1..Len(kept) |-> kept[i].clause], <<" ", "A", "N", "D", " ">>),
                 ClauseParams(kept)))

WhereResult(translations) ==
  IF ~AllOk(translations) THEN FirstError(translations)
  ELSE JoinWhere(KeptClauses(translations))

\* flat conditions first, then the OR-groups, each in insertion order
buildWhereClause(builder) ==
  WhereResult([i \in 1..Len(builder.whereConditions) |->
                 translateCondition(builder.whereConditions[i])]
              \o [i \in 1..Len(builder.whereOrConditions) |->
                    GroupClause(builder.whereOrConditions[i])])

----------------------------------------------------------------------------
(* sqlite/query-translator.ts: SELECT expressions                          *)

NoNewline(s) == ~Contains(s, "\n")

\* /^[0-9]+(\.[0-9]+)?$/
NumericLiteral(s) ==
  LET parts == SplitChar(s, ".")
      Digits(p) == Len(p) >= 1 /\ \A i \in 1..Len(p) : IsDigit(p[i])
  IN  Len(parts) \in {1, 2} /\ \A i \in 1..Len(parts) : Digits(parts[i])

\* /^'.*'$/ or /^".*"$/
QuotedLiteral(s) ==
  /\ Len(s) >= 2
  /\ \/ (s[1] = "'" /\ s[Len(s)] = "'")
     \/ (s[1] = "\"" /\ s[Len(s)] = "\"")
  /\ NoNewline(SubSeq(s, 2, Len(s) - 1))

\* /^([A-Za-z_][A-Za-z0-9_]*)\((.*)\)$/: the name and the text between the parentheses
FunctionShape(s) ==
  /\ Contains(s, "(")
  /\ s[Len(s)] = ")"
  /\ LET p == SetMin({i \in 1..Len(s) : s[i] = "("})
     IN  /\ p < Len(s)
         /\ identifierPattern(SubSeq(s, 1, p - 1))
         /\ NoNewline(SubSeq(s, p + 1, Len(s) - 1))
FunctionName(s) == SubSeq(s, 1, SetMin({i \in 1..Len(s) : s[i] = "("}) - 1)
FunctionArgs(s) == SubSeq(s, SetMin({i \in 1..Len(s) : s[i] = "("}) + 1, Len(s) - 1)

\* the loop of splitFunctionArgs from character i on: depth, current argument, arguments so far
RECURSIVE SplitArgsLoop(_, _, _, _, _)
SplitArgsLoop(text, i, depth, current, args) ==
  IF i > Len(text)
  THEN IF Trim(current) # <<>> THEN Append(args, Trim(current)) ELSE args
  ELSE LET char == text[i]
       IN  CASE char = "(" -> SplitArgsLoop(text, i + 1, depth + 1, Append(current, char), args)
             [] char = ")" -> SplitArgsLoop(text, i + 1, depth - 1, Append(current, char), args)
             [] char = "," /\ depth = 0 ->
                  SplitArgsLoop(text, i + 1, depth, <<>>,
                                IF Trim(current) # <<>> THEN Append(args, Trim(current)) ELSE args)
             [] OTHER -> SplitArgsLoop(text, i + 1, depth, Append(current, char), args)

splitFunctionArgs(argumentText) ==
  LET args == SplitArgsLoop(argumentText, 1, 0, <<>>, <<>>)
  IN  IF Len(args) > 0 THEN args ELSE <<Trim(argumentText)>>

RECURSIVE formatFunctionCall(_, _)
RECURSIVE formatFunctionArgument(_)
formatFunctionArgument(argument) ==
  LET Format(trimmed) ==
        IF trimmed = <<>> THEN Err("SqliteTranslationError")
        ELSE IF trimmed = <<"*">> THEN Ok(trimmed)
        ELSE IF NumericLiteral(trimmed) THEN Ok(trimmed)
        ELSE IF QuotedLiteral(trimmed) THEN Ok(trimmed)
        ELSE IF StartsWith(ToUpper(trimmed), <<"D", "I", "S", "T", "I", "N", "C", "T", " ">>)
        THEN Bind(formatFunctionArgument(Trim(SubSeq(trimmed, 9, Len(trimmed)))),
                  LAMBDA inner : Ok(<<"D", "I", "S", "T", "I", "N", "C", "T", " ">> \o inner))
        ELSE IF FunctionShape(trimmed)
        THEN formatFunctionCall(FunctionName(trimmed), FunctionArgs(trimmed))
        ELSE quoteQualifiedIdentifier(trimmed)
  IN  Format(Trim(argument))

formatFunctionCall(functionName, rawArguments) ==
  LET Format(argumentText) ==
        IF Len(argumentText) = 0 THEN Err("SqliteTranslationError")
        ELSE LET Each(split) == [i \in 1..Len(split) |-> formatFunctionArgument(split[i])]
             IN  BindAll(Each(splitFunctionArgs(argumentText)), LAMBDA args :
                   Ok(functionName \o <<"(">> \o JoinWith(args, <<",", " ">>) \o <<")">>))
  IN  IF ~validateIdentifier(functionName) THEN Err("SqliteTranslationError")
      ELSE Format(Trim(rawArguments))

\* /^([A-Za-z_][A-Za-z0-9_]*)\.\*$/
WildcardShape(s) ==
  /\ Len(s) >= 3
  /\ SubSeq(s, Len(s) - 1, Len(s)) = <<".", "*">>
  /\ identifierPattern(SubSeq(s, 1, Len(s) - 2))

formatSelectExpression(expression) ==
  LET Format(trimmed) ==
        IF trimmed = <<"*">> THEN Ok(trimmed)
        ELSE IF WildcardShape(trimmed)
        THEN Bind(quoteIdentifierLocal(SubSeq(trimmed, 1, Len(trimmed) - 2)),
                  LAMBDA quoted : Ok(quoted \o <<".", "*">>))
        ELSE IF FunctionShape(trimmed)
        THEN formatFunctionCall(FunctionName(trimmed), FunctionArgs(trimmed))
        ELSE quoteQualifiedIdentifier(trimmed)
  IN  Format(Trim(expression))

\* /^(.*)\s+as\s+([A-Za-z_][A-Za-z0-9_]*)$/i : the positions j of the first character
\* of "as" at which the pattern matches
AliasMatches(field) ==
  {j \in 2..(Len(field) - 3) :
     /\ ToLower(SubSeq(field, j, j + 1)) = <<"a", "s">>
     /\ \E p \in 0..(j - 2) :
          /\ \A i \in (p + 1)..(j - 1) : IsSpace(field[i])
          /\ NoNewline(SubSeq(field, 1, p))
     /\ \E a \in (j + 3)..Len(field) :
          /\ \A i \in (j + 2)..(a - 1) : IsSpace(field[i])
          /\ identifierPattern(SubSeq(field, a, Len(field)))}

AliasStart(field, j) ==
  SetMin({a \in (j + 3)..Len(field) :
            /\ \A i \in (j + 2)..(a - 1) : IsSpace(field[i])
            /\ identifierPattern(SubSeq(field, a, Len(field)))})

\* the greedy (.*) takes the last position that matches; no alias is the empty text
extractSelectAlias(field) ==
  LET Extract(matches) ==
        IF matches = {} THEN Ok([expression |-> field, alias |-> <<>>])
        ELSE LET Split(j, alias) ==
                   IF ~validateIdentifier(alias) THEN Err("SqliteTranslationError")
                   ELSE Ok([expression |-> Trim(SubSeq(field, 1, j - 2)), alias |-> alias])
                 At(j) == Split(j, Trim(SubSeq(field, AliasStart(field, j), Len(field))))
             IN  At(SetMax(matches))
  IN  Extract(AliasMatches(field))

quoteSelectField(field) ==
  Bind(extractSelectAlias(Trim(field)), LAMBDA parts :
  Bind(formatSelectExpression(parts.expression), LAMBDA formattedExpression :
    IF parts.alias = <<>> THEN Ok(formattedExpression)
    ELSE Bind(quoteIdentifierLocal(parts.alias), LAMBDA alias :
           Ok(formattedExpression \o <<" ", "A", "S", " ">> \o alias))))

buildSelectClause(selectFields) ==
  IF Len(selectFields) = 0 THEN Ok(<<"*">>)
  ELSE BindAll([i \in 1..Len(selectFields) |-> quoteSelectField(selectFields[i])],
               LAMBDA fields : Ok(JoinWith(fields, <<",", " ">>)))

----------------------------------------------------------------------------
(* sqlite/query-translator.ts: joins, ORDER BY, LIMIT/OFFSET, statements   *)

\* a variant that takes a right join for a join the engine has
normalizeJoinTypeRight(type) ==
  LET normalized == ToLower(type)
  IN  IF normalized = <<"i", "n", "n", "e", "r">> THEN Ok(<<"I", "N", "N", "E", "R", " ", "J", "O", "I", "N">>)
      ELSE IF normalized = <<"l", "e", "f", "t">> THEN Ok(<<"L", "E", "F", "T", " ", "J", "O", "I", "N">>)
      ELSE IF normalized = <<"r", "i", "g", "h", "t">> THEN Ok(<<"R", "I", "G", "H", "T", " ", "J", "O", "I", "N">>)
      ELSE Err("SqliteTranslationError")

normalizeJoinType(type) ==
  LET normalized == ToLower(type)
  IN  IF normalized = <<"i", "n", "n", "e", "r">> THEN Ok(<<"I", "N", "N", "E", "R", " ", "J", "O", "I", "N">>)
      ELSE IF normalized = <<"l", "e", "f", "t">> THEN Ok(<<"L", "E", "F", "T", " ", "J", "O", "I", "N">>)
      ELSE Err("SqliteTranslationError")

quoteJoinTarget(target) ==
  LET Quote(parts) ==
        IF Len(parts) = 1 THEN quoteIdentifierLocal(parts[1])
        ELSE IF Len(parts) = 2 \/ (Len(parts) = 3 /\ ToLower(parts[2]) = <<"a", "s">>)
        THEN Bind(quoteIdentifierLocal(parts[1]), LAMBDA first :
             Bind(quoteIdentifierLocal(parts[Len(parts)]), LAMBDA second :
               Ok(first \o <<" ", "A", "S", " ">> \o second)))
        ELSE Err("SqliteTranslationError")
  IN  Quote(SplitSpaces(Trim(target)))

\* a variant that reads the first two sides of any number of them
sanitizeJoinConditionFirstTwo(condition) ==
  LET Sanitize(parts) ==
        IF Len(parts) < 2 \/ Trim(parts[1]) = <<>> \/ Trim(parts[2]) = <<>>
        THEN Err("SqliteTranslationError")
        ELSE Bind(quoteQualifiedIdentifier(Trim(parts[1])), LAMBDA left :
             Bind(quoteQualifiedIdentifier(Trim(parts[2])), LAMBDA right :
               Ok(left \o <<" ", "=", " ">> \o right)))
  IN  Sanitize(SplitChar(condition, "="))

sanitizeJoinCondition(condition) ==
  LET Sanitize(parts) ==
        IF Len(parts) # 2 \/ Trim(parts[1]) = <<>> \/ Trim(parts[2]) = <<>>
        THEN Err("SqliteTranslationError")
        ELSE Bind(quoteQualifiedIdentifier(Trim(parts[1])), LAMBDA left :
             Bind(quoteQualifiedIdentifier(Trim(parts[2])), LAMBDA right :
               Ok(left \o <<" ", "=", " ">> \o right)))
  IN  Sanitize(SplitChar(condition, "="))

JoinClause(join) ==
  Bind(normalizeJoinType(join.type), LAMBDA joinType :
  Bind(quoteJoinTarget(join.table), LAMBDA tableSql :
  Bind(sanitizeJoinCondition(join.on), LAMBDA conditionSql :
    Ok(joinType \o <<" ">> \o tableSql \o <<" ", "O", "N", " ">> \o conditionSql))))

buildJoinClauses(joins) ==
  IF Len(joins) = 0 THEN Ok(<<>>)
  ELSE BindAll([i \in 1..Len(joins) |-> JoinClause(joins[i])], LAMBDA clauses :
         Ok(<<" ">> \o JoinWith(clauses, <<" ">>)))

normalizeOrderDirection(direction) ==
  LET normalized == ToLower(direction)
  IN  IF normalized = <<"a", "s", "c">> \/ normalized = <<"d", "e", "s", "c">> THEN Ok(ToUpper(normalized))
      ELSE Err("SqliteTranslationError")

OrderPart(order) ==
  Bind(normalizeOrderDirection(order.direction), LAMBDA direction :
  Bind(quoteQualifiedIdentifier(order.field), LAMBDA field :
    Ok(field \o <<" ">> \o direction)))

buildOrderClause(orderBy) ==
  IF Len(orderBy) = 0 THEN Ok(<<>>)
  ELSE BindAll([i \in 1..Len(orderBy) |-> OrderPart(orderBy[i])],
               LAMBDA parts : Ok(<<" ", "O", "R", "D", "E", "R", " ", "B", "Y", " ">> \o JoinWith(parts, <<",", " ">>)))

\* a variant that takes any integer
AnyInteger(n) == n[1] = "num"

\* Number.isInteger(n) && n >= 0
NonNegativeInteger(n) == n[1] = "num" /\ n[2] >= 0

buildLimitOffsetClause(limit, offset) ==
  LET hasLimit == limit[1] \notin {"null", "undef"}
      hasOffset == offset[1] \notin {"null", "undef"}
      parts == (IF hasLimit THEN <<<<"L", "I", "M", "I", "T", " ">> \o IntToText(limit[2])>> ELSE <<>>)
               \o (IF hasOffset THEN <<<<"O", "F", "F", "S", "E", "T", " ">> \o IntToText(offset[2])>> ELSE <<>>)
  IN  IF hasLimit /\ ~NonNegativeInteger(limit) THEN Err("SqliteTranslationError")
      ELSE IF hasOffset /\ ~NonNegativeInteger(offset) THEN Err("SqliteTranslationError")
      ELSE IF Len(parts) = 0 THEN Ok(<<>>)
      ELSE Ok(<<" ">> \o JoinWith(parts, <<" ">>))

TranslatedQuery(sql, params) == [params |-> params, sql |-> sql]

\* sqlParts.filter(Boolean).join(" ").trim()
JoinParts(sqlParts) == Trim(JoinWith(SelectSeq(sqlParts, LAMBDA part : part # <<>>), <<" ">>))

translateSelect(builder) ==
  IF Len(builder.nestedSelects) > 0 THEN Err("SqliteTranslationError")
  ELSE Bind(resolveTableName(builder), LAMBDA tableName :
       Bind(buildSelectClause(builder.selectFields), LAMBDA selectClause :
       Bind(buildJoinClauses(builder.joins), LAMBDA joinClause :
       Bind(buildWhereClause(builder), LAMBDA whereClause :
       Bind(buildOrderClause(builder.orderBy), LAMBDA orderClause :
       Bind(buildLimitOffsetClause(builder.limitValue, builder.offsetValue),
            LAMBDA limitOffsetClause :
       Bind(quoteIdentifierLocal(tableName), LAMBDA quotedTable :
         Ok(TranslatedQuery(JoinParts(<<<<"S", "E", "L", "E", "C", "T", " ">> \o selectClause, <<"F", "R", "O", "M", " ">> \o quotedTable,
                                        joinClause, whereClause.clause, orderClause,
                                        limitOffsetClause>>),
                            whereClause.params)))))))))

\* a variant that takes each row's values in the row's own key order
InsertParamsRowOrder(row, columns) ==
  [c \in 1..Len(columns) |-> normalizeValue(row[2][c].val)]

\* columns.map(column => normalizeValue(row[column]))
InsertParams(row, columns) ==
  [c \in 1..Len(columns) |-> normalizeValue(Prop(row, columns[c]))]

\* a variant that compares the number of columns only
allColumnsCounted(rowColumnNames, columns) == Len(rowColumnNames) = Len(columns)

\* rowNames.length === columns.length && rowNames.every(name => columns.includes(name))
allColumnsPresent(rowColumnNames, columns) ==
  /\ Len(rowColumnNames) = Len(columns)
  /\ \A i \in 1..Len(rowColumnNames) : rowColumnNames[i] \in Range(columns)

\* rowsInput is a plain object or an array of plain objects
translateInsert(builder, rowsInput) ==
  LET Insert(tableName, rows) ==
        IF Len(rows) = 0 THEN Err("SqliteTranslationError")
        ELSE LET Columns(columns) ==
                   IF Len(columns) = 0 THEN Err("SqliteTranslationError")
                   ELSE BindAll([i \in 1..Len(columns) |-> quoteColumnName(columns[i])],
                          LAMBDA quotedColumns :
                            IF \E i \in 1..Len(rows) :
                                 ~allColumnsPresent(ObjectKeys(rows[i]), columns)
                            THEN Err("SqliteTranslationError")
                            ELSE Bind(quoteIdentifierLocal(tableName), LAMBDA quotedTable :
                                   Ok([i \in 1..Len(rows) |->
                                         TranslatedQuery(
                                           <<"I", "N", "S", "E", "R", "T", " ", "I", "N", "T", "O", " ">> \o quotedTable \o <<" ", "(">>
                                             \o JoinWith(quotedColumns, <<",", " ">>)
                                             \o <<")", " ", "V", "A", "L", "U", "E", "S", " ", "(">> \o Placeholders(Len(columns))
                                             \o <<")", " ", "R", "E", "T", "U", "R", "N", "I", "N", "G", " ", "*">>,
                                           InsertParams(rows[i], columns))])))
             IN  Columns(ObjectKeys(rows[1]))
  IN  Bind(resolveTableName(builder), LAMBDA tableName :
        Insert(tableName, IF rowsInput[1] = "arr" THEN rowsInput[2] ELSE <<rowsInput>>))

\* updateColumns.map(column => normalizeValue(updates[column]))
\* a variant that takes the values from the last column to the first
setParamsReversed(updates, updateColumns) ==
  [c \in 1..Len(updateColumns) |->
     normalizeValue(Prop(updates, updateColumns[Len(updateColumns) + 1 - c]))]

setParams(updates, updateColumns) ==
  [c \in 1..Len(updateColumns) |-> normalizeValue(Prop(updates, updateColumns[c]))]

translateUpdate(builder, updates) ==
  LET Update(tableName, updateColumns) ==
        IF Len(updateColumns) = 0 THEN Err("SqliteTranslationError")
        ELSE BindAll([i \in 1..Len(updateColumns) |-> quoteColumnName(updateColumns[i])],
               LAMBDA quoted :
                 Bind(buildWhereClause(builder), LAMBDA whereClause :
                 Bind(quoteIdentifierLocal(tableName), LAMBDA quotedTable :
                   Ok(TranslatedQuery(
                        <<"U", "P", "D", "A", "T", "E", " ">> \o quotedTable \o <<" ", "S", "E", "T", " ">>
                          \o JoinWith([i \in 1..Len(quoted) |-> quoted[i] \o <<" ", "=", " ", "?">>], <<",", " ">>)
                          \o whereClause.clause \o <<" ", "R", "E", "T", "U", "R", "N", "I", "N", "G", " ", "*">>,
                        setParams(updates, updateColumns) \o whereClause.params)))))
  IN  Bind(resolveTableName(builder), LAMBDA tableName :
        Update(tableName, ObjectKeys(updates)))

\* a variant that appends the LIMIT and OFFSET of the descriptor
translateDeleteLimited(builder) ==
  Bind(resolveTableName(builder), LAMBDA tableName :
  Bind(buildWhereClause(builder), LAMBDA whereClause :
  Bind(buildLimitOffsetClause(builder.limitValue, builder.offsetValue), LAMBDA limitClause :
  Bind(quoteIdentifierLocal(tableName), LAMBDA quotedTable :
    Ok(TranslatedQuery(<<"D", "E", "L", "E", "T", "E", " ", "F", "R", "O", "M", " ">> \o quotedTable \o whereClause.clause
                         \o limitClause \o <<" ", "R", "E", "T", "U", "R", "N", "I", "N", "G", " ", "*">>,
                       whereClause.params))))))

translateDelete(builder) ==
  Bind(resolveTableName(builder), LAMBDA tableName :
  Bind(buildWhereClause(builder), LAMBDA whereClause :
  Bind(quoteIdentifierLocal(tableName), LAMBDA quotedTable :
    Ok(TranslatedQuery(<<"D", "E", "L", "E", "T", "E", " ", "F", "R", "O", "M", " ">> \o quotedTable \o whereClause.clause
                         \o <<" ", "R", "E", "T", "U", "R", "N", "I", "N", "G", " ", "*">>,
                       whereClause.params)))))

----------------------------------------------------------------------------
(* Bounded inputs of the translator                                         *)

MaxConds == 2
MaxGroups == 1
MaxGroupLen == 2
MaxRows == 2

SeqsUpTo(S, n) == UNION {[1..m -> S] : m \in 0..n}

TableUsers == JsStr(<<"u", "s", "e", "r", "s">>)
TableSamples == {TableUsers, JsNull, JsStr(<<>>), JsStr(<<"b", "a", "d", "-", "n", "a", "m", "e">>)}

DateSample == JsDate(<<"1", "9", "7", "0", "-", "0", "1", "-", "0", "1", "T", "0", "0", ":", "0", "0", ":", "0", "0", ".", "0", "0", "0", "Z">>)

CondSamples ==
  { Cond(<<"i", "d">>, "eq", JsNum(5)),
    Cond(<<"i", "d">>, "neq", JsUndef),
    Cond(<<"t", ".", "n", "a", "m", "e">>, "like", JsNum(5)),
    Cond(<<"i", "d">>, "in", JsArr(<<>>)),
    Cond(<<"i", "d">>, "in", JsArr(<<JsNum(1), JsBool(TRUE)>>)),
    Cond(<<"i", "d">>, "is", JsStr(<<"N", "O", "T", " ", "N", "U", "L", "L">>)),
    Cond(<<"i", "d">>, "gt", DateSample),
    Cond(<<"i", "d">>, "or", JsNum(1)) }

GroupCondSamples ==
  { Cond(<<"a", "g", "e">>, "lte", JsNum(3)),
    Cond(<<"n", "a", "m", "e">>, "ilike", JsStr(<<"a", "%">>)),
    Cond(<<"a", "g", "e">>, "eq", JsNull) }

GroupSample == <<Cond(<<"a", "g", "e">>, "lte", JsNum(3)), Cond(<<"a", "g", "e">>, "in", JsArr(<<JsNum(8), JsNum(9)>>))>>

SelectSamples ==
  { <<>>,
    <<<<"i", "d">>, <<"n", "a", "m", "e">>>>,
    <<<<"u", ".", "*">>, <<"c", "o", "u", "n", "t", "(", "*", ")", " ", "A", "S", " ", "t", "o", "t", "a", "l">>>>,
    <<<<"c", "o", "a", "l", "e", "s", "c", "e", "(", "u", ".", "n", "a", "m", "e", ",", " ", "'", "x", "?", "'", ")", " ", " ", "a", "s", " ", " ", "n">>>>,
    <<<<"f", "(", "'", "a", "'", "|", "|", "?", "|", "|", "'", "b", "'", ")">>>>,
    <<<<"m", "a", "x", "(", "D", "I", "S", "T", "I", "N", "C", "T", " ", "r", "o", "u", "n", "d", "(", "a", "g", "e", ",", " ", "2", ")", ")">>>>,
    <<<<"f", "(", "a", ",", ",", "b", ")">>>>,
    <<<<"f", "(", ")">>>> }

Order(field, direction) == [field |-> field, direction |-> direction]
OrderSamples ==
  { <<>>, <<Order(<<"a", "g", "e">>, <<"d", "e", "s", "c">>), Order(<<"u", ".", "i", "d">>, <<"A", "S", "C">>)>>, <<Order(<<"a", "g", "e">>, <<"u", "p">>)>> }

LimitSamples == {JsNull, JsNum(10), JsNum(0 - 1), JsFrac}
OffsetSamples == {JsNull, JsNum(0), JsNum(0 - 1)}

Join(table, on, type) == [table |-> table, type |-> type, on |-> on]
JoinSamples ==
  { <<>>,
    <<Join(<<"p", "o", "s", "t", "s", " ", "p">>, <<"p", ".", "u", "s", "e", "r", "_", "i", "d", " ", "=", " ", "u", "s", "e", "r", "s", ".", "i", "d">>, <<"l", "e", "f", "t">>)>>,
    <<Join(<<"p", "o", "s", "t", "s", " ", "A", "S", " ", "p">>, <<"p", ".", "u", "s", "e", "r", "_", "i", "d", "=", "u", "s", "e", "r", "s", ".", "i", "d">>, <<"I", "N", "N", "E", "R">>),
      Join(<<"t", "a", "g", "s">>, <<"t", "a", "g", "s", ".", "i", "d", " ", "=", " ", "p", ".", "t", "a", "g", "_", "i", "d">>, <<"i", "n", "n", "e", "r">>)>>,
    <<Join(<<"p", "o", "s", "t", "s">>, <<"p", "o", "s", "t", "s", ".", "u", "s", "e", "r", "_", "i", "d", " ", "=", " ", "u", "s", "e", "r", "s", ".", "i", "d">>, <<"r", "i", "g", "h", "t">>)>>,
    <<Join(<<"p", "o", "s", "t", "s">>, <<"p", "o", "s", "t", "s", ".", "a", " ", "=", " ", "u", "s", "e", "r", "s", ".", "b", " ", "=", " ", "u", "s", "e", "r", "s", ".", "c">>, <<"i", "n", "n", "e", "r">>)>> }

NestedSelect(table, fields) == [table |-> table, fields |-> fields]
NestedSamples == {<<>>, <<NestedSelect(<<"p", "o", "s", "t", "s">>, <<<<"i", "d">>>>)>>}

\* descriptors that vary the flat conditions, with at most one fixed OR-group
FlatFocus ==
  { Descriptor(TableUsers, <<>>, w, g, <<>>, JsNull, JsNull, <<>>, <<>>) :
      w \in SeqsUpTo(CondSamples, MaxConds), g \in {<<>>, <<GroupSample>>} }

\* descriptors that vary the OR-groups
GroupFocus ==
  { Descriptor(TableUsers, <<>>, w, g, <<>>, JsNull, JsNull, <<>>, <<>>) :
      w \in {<<>>, <<Cond(<<"i", "d">>, "eq", JsNum(5))>>},
      g \in SeqsUpTo(SeqsUpTo(GroupCondSamples, MaxGroupLen), MaxGroups) }

\* descriptors that vary the select list, joins, order and paging
SelectFocus ==
  { Descriptor(t, s, <<>>, <<>>, o, l, f, j, n) :
      t \in TableSamples, s \in SelectSamples, o \in OrderSamples, l \in LimitSamples,
      f \in OffsetSamples, j \in JoinSamples, n \in NestedSamples }

\* a flat condition with three OR-groups: one fragment, none, two
GroupsSample ==
  Descriptor(TableUsers, <<>>, <<Cond(<<"i", "d">>, "eq", JsNum(5))>>,
             <<<<Cond(<<"a", "g", "e">>, "lte", JsNum(3))>>, <<>>,
               <<Cond(<<"n", "a", "m", "e">>, "ilike", JsStr(<<"a", "%">>)), Cond(<<"a", "g", "e">>, "eq", JsNull)>>>>,
             <<>>, JsNull, JsNull, <<>>, <<>>)

\* a left join and an inner join with a flat condition
JoinedSample ==
  Descriptor(TableUsers, <<>>, <<Cond(<<"i", "d">>, "eq", JsNum(5))>>, <<>>, <<>>, JsNull, JsNull,
             <<Join(<<"p", "o", "s", "t", "s", " ", "p">>, <<"p", ".", "u", "s", "e", "r", "_", "i", "d", "=", "u", "s", "e", "r", "s", ".", "i", "d">>, <<"L", "e", "f", "t">>),
               Join(<<"t", "a", "g", "s">>, <<"t", "a", "g", "s", ".", "i", "d", " ", "=", " ", "p", ".", "t", "a", "g", "_", "i", "d">>, <<"i", "n", "n", "e", "r">>)>>,
             <<>>)

DescriptorSamples == FlatFocus \cup GroupFocus \cup SelectFocus \cup {GroupsSample, JoinedSample}

PayloadDescriptors ==
  { Descriptor(t, <<>>, w, <<>>, <<>>, JsNull, JsNull, <<>>, <<>>) :
      t \in {TableUsers, JsNull},
      w \in {<<>>, <<Cond(<<"n", "a", "m", "e">>, "eq", JsStr(<<"A", "l", "i", "c", "e">>)), Cond(<<"i", "d">>, "in", JsArr(<<JsNum(1), JsBool(TRUE)>>))>>} }

\* the update of the adapter's test: {age: 31} where name eq Alice on users
UpdateSample ==
  Descriptor(TableUsers, <<>>, <<Cond(<<"n", "a", "m", "e">>, "eq", JsStr(<<"A", "l", "i", "c", "e">>))>>,
             <<>>, <<>>, JsNull, JsNull, <<>>, <<>>)
UpdatePayload == JsObj(<<Entry(<<"a", "g", "e">>, JsNum(31))>>)

PayloadValues == {JsNum(7), JsBool(TRUE)}
\* objects over the keys a and b in either key order, and two with a bad key
RowSamples ==
  { JsObj(<<>>) }
  \cup { JsObj(<<Entry(key, x)>>) : key \in {<<"a">>, <<"b">>}, x \in PayloadValues }
  \cup { JsObj(<<Entry(<<"a">>, x), Entry(<<"b">>, y)>>) : x \in PayloadValues, y \in PayloadValues }
  \cup { JsObj(<<Entry(<<"b">>, y), Entry(<<"a">>, x)>>) : x \in PayloadValues, y \in PayloadValues }
  \cup { JsObj(<<Entry(<<"t", ".", "a">>, JsNum(7))>>), JsObj(<<Entry(<<"b", "a", "d", "-", "n", "a", "m", "e">>, JsNum(7))>>) }

PayloadSamples == RowSamples \cup {JsArr(rows) : rows \in SeqsUpTo(RowSamples, MaxRows)}

DefaultPayload == JsObj(<<Entry(<<"a", "g", "e">>, JsNum(31)), Entry(<<"a", "c", "t", "i", "v", "e">>, JsBool(FALSE))>>)

----------------------------------------------------------------------------
(* State                                                                    *)

VARIABLES
  \* the translator's entry points on bounded inputs
  descriptor,     \* the descriptor handed to the translator
  payload,        \* the insert / update payload
  translated,     \* the call made and what it returned or threw
  \* the QueryBuilder
  heap,           \* the arrays and entry objects allocated so far, by address
  builders,       \* the original d and its clone c: scalar fields and array addresses
  builderCalls,   \* number of calls made on the builders
  lastCall,       \* the last call: its target and its name
  \* the SQLite adapter
  config,         \* the configuration given to createHazoConnect
  disk,           \* the snapshot held by the file at the database path, if any
  fileWrites,     \* number of writeFile calls that have succeeded
  db,             \* the engine's in-memory data
  init,           \* initializeDatabase: where it stands and what it did
  calls,          \* the query / rawQuery calls made on the adapter
  \* the admin service and the Next.js setup
  modules         \* their module-level variables, the environment and the adapters made

trVars == <<descriptor, payload, translated>>
qbVars == <<heap, builders, builderCalls, lastCall>>
adVars == <<config, disk, fileWrites, db, init, calls>>
vars == <<trVars, qbVars, adVars, modules>>

----------------------------------------------------------------------------
(* The translator's entry points applied to bounded inputs                  *)

NotTranslated == [op |-> "none", result |-> Err("none")]

TrInit ==
  /\ \/ descriptor \in DescriptorSamples /\ payload = DefaultPayload
     \/ descriptor \in PayloadDescriptors /\ payload \in PayloadSamples
     \/ descriptor = UpdateSample /\ payload = UpdatePayload
  /\ translated = NotTranslated

TrIdle ==
  /\ descriptor = Descriptor(JsNull, <<>>, <<>>, <<>>, <<>>, JsNull, JsNull, <<>>, <<>>)
  /\ payload = DefaultPayload
  /\ translated = NotTranslated

TranslateSelect ==
  /\ translated.op = "none"
  /\ translated' = [op |-> "select", result |-> translateSelect(descriptor)]
  /\ UNCHANGED <<descriptor, payload, qbVars, adVars, modules>>

TranslateInsert ==
  /\ translated.op = "none"
  /\ translated' = [op |-> "insert", result |-> translateInsert(descriptor, payload)]
  /\ UNCHANGED <<descriptor, payload, qbVars, adVars, modules>>

TranslateUpdate ==
  /\ translated.op = "none"
  /\ payload[1] = "obj"
  /\ translated' = [op |-> "update", result |-> translateUpdate(descriptor, payload)]
  /\ UNCHANGED <<descriptor, payload, qbVars, adVars, modules>>

TranslateDelete ==
  /\ translated.op = "none"
  /\ translated' = [op |-> "delete", result |-> translateDelete(descriptor)]
  /\ UNCHANGED <<descriptor, payload, qbVars, adVars, modules>>

TrNext == TranslateSelect \/ TranslateInsert \/ TranslateUpdate \/ TranslateDelete

\* the statements of the translate call made: one for select, update and delete
Statements ==
  IF ~translated.result.ok THEN <<>>
  ELSE IF translated.op = "insert" THEN translated.result.v
  ELSE <<translated.result.v>>

----------------------------------------------------------------------------
(* query-builder.ts: the QueryBuilder, with its arrays and entries as heap  *)
(* cells so that sharing between two builders is part of the state          *)

MaxBuilderCalls == 3

ArrayCell(items) == [t |-> "array", items |-> items, props |-> <<>>]
ObjectCell(props) == [t |-> "object", items |-> <<>>, props |-> props]

NoBuilder == [table |-> JsNull, orderBy |-> 0, joins |-> 0, selectFields |-> 0,
              whereConditions |-> 0, whereOrConditions |-> 0, limitValue |-> JsNull,
              offsetValue |-> JsNull, nestedSelects |-> 0, live |-> FALSE]

\* new QueryBuilder(): the field initialisers allocate six empty arrays at base+1..base+6
NewBuilder(base) ==
  [table |-> JsNull, orderBy |-> base + 4, joins |-> base + 5, selectFields |-> base + 1,
   whereConditions |-> base + 2, whereOrConditions |-> base + 3, limitValue |-> JsNull,
   offsetValue |-> JsNull, nestedSelects |-> base + 6, live |-> TRUE]

EmptyArrays == [i \in 1..6 |-> ArrayCell(<<>>)]

\* a variant that puts the new entry first
PushFront(h, a, x) == [h EXCEPT ![a].items = <<x>> \o @]

\* array.push(x) on the array cell a
Push(h, a, x) == [h EXCEPT ![a].items = Append(@, x)]

Live(b) == builders[b].live
UnderBound == builderCalls < MaxBuilderCalls

Called(b, name, args) ==
  /\ builderCalls' = builderCalls + 1
  /\ lastCall' = [args |-> args, target |-> b, name |-> name]
  /\ UNCHANGED <<trVars, adVars, modules>>

from(b, table) ==
  /\ Live(b) /\ UnderBound
  /\ builders' = [builders EXCEPT ![b].table = JsStr(table)]
  /\ UNCHANGED heap
  /\ Called(b, "from", <<table>>)

\* select(fields): a string is split or wrapped into a new array, an array is kept as given
select(b, fields) ==
  /\ Live(b) /\ UnderBound
  /\ LET items == IF fields[1] = "str"
                  THEN IF Contains(fields[2], ",")
                       THEN LET parts == SplitChar(fields[2], ",")
                            IN  [i \in 1..Len(parts) |-> Trim(parts[i])]
                       ELSE IF fields[2] = <<"*">> THEN <<fields[2]>>
                       ELSE <<Trim(fields[2])>>
                  ELSE fields[2]
     IN  /\ heap' = Append(heap, ArrayCell(items))
         /\ builders' = [builders EXCEPT ![b].selectFields = Len(heap) + 1]
  /\ Called(b, "select", <<fields>>)

where(b, field, operator, value) ==
  /\ Live(b) /\ UnderBound
  /\ heap' = Push(Append(heap, ObjectCell(Cond(field, operator, value))),
                  builders[b].whereConditions, Len(heap) + 1)
  /\ UNCHANGED builders
  /\ Called(b, "where", <<field, operator, value>>)

whereIn(b, field, values) ==
  /\ Live(b) /\ UnderBound
  /\ heap' = Push(Append(heap, ObjectCell(Cond(field, "in", JsArr(values)))),
                  builders[b].whereConditions, Len(heap) + 1)
  /\ UNCHANGED builders
  /\ Called(b, "whereIn", <<field, values>>)

\* whereOr(conditions): conditions.map builds a new array of new condition objects
whereOr(b, conditions) ==
  /\ Live(b) /\ UnderBound
  /\ LET n == Len(conditions)
         objects == [i \in 1..n |-> ObjectCell(Cond(conditions[i].field, conditions[i].operator,
                                                      conditions[i].value))]
         orConditions == ArrayCell([i \in 1..n |-> Len(heap) + i])
     IN  heap' = Push(heap \o objects \o <<orConditions>>,
                      builders[b].whereOrConditions, Len(heap) + n + 1)
  /\ UNCHANGED builders
  /\ Called(b, "whereOr", <<conditions>>)

\* a parameter with a default takes it when the argument is omitted (undefined)
OrDefault(argument, default) == IF argument = JsUndef THEN default ELSE argument[2]

\* order(field, direction = 'asc')
order(b, field, direction) ==
  /\ Live(b) /\ UnderBound
  /\ heap' = Push(Append(heap, ObjectCell(Order(field, OrDefault(direction, <<"a", "s", "c">>)))),
                  builders[b].orderBy, Len(heap) + 1)
  /\ UNCHANGED builders
  /\ Called(b, "order", <<field, direction>>)

limit(b, count) ==
  /\ Live(b) /\ UnderBound
  /\ builders' = [builders EXCEPT ![b].limitValue = count]
  /\ UNCHANGED heap
  /\ Called(b, "limit", <<count>>)

offset(b, count) ==
  /\ Live(b) /\ UnderBound
  /\ builders' = [builders EXCEPT ![b].offsetValue = count]
  /\ UNCHANGED heap
  /\ Called(b, "offset", <<count>>)

\* join(table, on, type = 'inner')
join(b, table, on, type) ==
  /\ Live(b) /\ UnderBound
  /\ heap' = Push(Append(heap, ObjectCell(Join(table, on, OrDefault(type, <<"i", "n", "n", "e", "r">>)))),
                  builders[b].joins, Len(heap) + 1)
  /\ UNCHANGED builders
  /\ Called(b, "join", <<table, on, type>>)

nestedSelect(b, table, fields) ==
  /\ Live(b) /\ UnderBound
  /\ heap' = Push(Append(heap, ObjectCell(NestedSelect(table, fields))),
                  builders[b].nestedSelects, Len(heap) + 1)
  /\ UNCHANGED builders
  /\ Called(b, "nestedSelect", <<table, fields>>)

\* a variant that hands the array itself to the clone
Share(h, a) == [heap |-> h, ref |-> a]

\* [...array]: a new array cell holding the same items
Spread(h, a) == [heap |-> Append(h, h[a]), ref |-> Len(h) + 1]

\* this._whereOrConditions.map(conditions => [...conditions])
RECURSIVE SpreadEach(_, _, _)
SpreadEach(h, groups, done) ==
  IF groups = <<>> THEN [heap |-> Append(h, ArrayCell(done)), ref |-> Len(h) + 1]
  ELSE LET one == Spread(h, Head(groups))
       IN  SpreadEach(one.heap, Tail(groups), Append(done, one.ref))

\* c = d.clone()
clone ==
  /\ Live("d") /\ ~Live("c")
  /\ LET d == builders["d"]
         s1 == Spread(heap, d.selectFields)
         s2 == Spread(s1.heap, d.whereConditions)
         s3 == SpreadEach(s2.heap, heap[d.whereOrConditions].items, <<>>)
         s4 == Spread(s3.heap, d.orderBy)
         s5 == Spread(s4.heap, d.joins)
         s6 == Spread(s5.heap, d.nestedSelects)
     IN  /\ heap' = s6.heap
         /\ builders' = [builders EXCEPT !["c"] =
                           [table |-> d.table, orderBy |-> s4.ref, joins |-> s5.ref,
                            selectFields |-> s1.ref, whereConditions |-> s2.ref,
                            whereOrConditions |-> s3.ref, limitValue |-> d.limitValue,
                            offsetValue |-> d.offsetValue, nestedSelects |-> s6.ref,
                            live |-> TRUE]]
  /\ lastCall' = [args |-> <<>>, target |-> "d", name |-> "clone"]
  /\ UNCHANGED <<builderCalls, trVars, adVars, modules>>

\* the caller changes an entry it obtained through an accessor:
\* b.getWhereConditions()[i].value = value
setEntryValue(b, i, value) ==
  /\ Live(b) /\ UnderBound
  /\ i \in 1..Len(heap[builders[b].whereConditions].items)
  /\ heap' = [heap EXCEPT ![heap[builders[b].whereConditions].items[i]].props.value = value]
  /\ UNCHANGED builders
  /\ Called(b, "setEntryValue", <<i, value>>)

\* what the accessors of builder b return, arrays and entries read through
Entries(a) == [i \in 1..Len(heap[a].items) |-> heap[heap[a].items[i]].props]
getTable(b) == builders[b].table
getSelectFields(b) == heap[builders[b].selectFields].items
getWhereConditions(b) == Entries(builders[b].whereConditions)
getWhereOrConditions(b) ==
  LET groups == heap[builders[b].whereOrConditions].items
  IN  [g \in 1..Len(groups) |-> Entries(groups[g])]
getOrderBy(b) == Entries(builders[b].orderBy)
getLimit(b) == builders[b].limitValue
getOffset(b) == builders[b].offsetValue
getJoins(b) == Entries(builders[b].joins)
getNestedSelects(b) == Entries(builders[b].nestedSelects)

Accessors(b) ==
  Descriptor(getTable(b), getSelectFields(b), getWhereConditions(b), getWhereOrConditions(b),
             getOrderBy(b), getLimit(b), getOffset(b), getJoins(b), getNestedSelects(b))

\* the cells reachable from builder b: its arrays, the OR-groups and every entry
Reachable(b) ==
  LET top == {builders[b].selectFields, builders[b].whereConditions,
              builders[b].whereOrConditions, builders[b].orderBy, builders[b].joins,
              builders[b].nestedSelects}
      groups == Range(heap[builders[b].whereOrConditions].items)
      entries == UNION {Range(heap[a].items) :
                          a \in {builders[b].whereConditions, builders[b].orderBy,
                                 builders[b].joins, builders[b].nestedSelects} \cup groups}
  IN  top \cup groups \cup entries

QbIdle ==
  /\ heap = <<>>
  /\ builders = [b \in {"d", "c"} |-> NoBuilder]
  /\ builderCalls = 0
  /\ lastCall = [args |-> <<>>, target |-> "d", name |-> "none"]

QbInit ==
  /\ heap = EmptyArrays
  /\ builders = [b \in {"d", "c"} |-> IF b = "d" THEN NewBuilder(0) ELSE NoBuilder]
  /\ builderCalls = 0
  /\ lastCall = [args |-> <<>>, target |-> "d", name |-> "new"]

OrGroupSample == <<Cond(<<"a", "g", "e">>, "lte", JsNum(3)), Cond(<<"n", "a", "m", "e">>, "eq", JsStr(<<"B", "o", "b">>))>>

QbNext ==
  \/ \E b \in {"d", "c"} :
       \/ \E t \in {<<"u", "s", "e", "r", "s">>, <<"p", "o", "s", "t", "s">>} : from(b, t)
       \/ \E f \in {JsStr(<<"i", "d", ",", " ", "n", "a", "m", "e">>), JsArr(<<<<"t", "i", "t", "l", "e">>>>)} : select(b, f)
       \/ where(b, <<"i", "d">>, "eq", JsNum(5))
       \/ whereIn(b, <<"i", "d">>, <<JsNum(1), JsNum(2)>>)
       \/ whereOr(b, OrGroupSample)
       \/ \E direction \in {JsStr(<<"d", "e", "s", "c">>), JsUndef} : order(b, <<"a", "g", "e">>, direction)
       \/ limit(b, JsNum(10))
       \/ offset(b, JsNum(20))
       \/ \E type \in {JsStr(<<"l", "e", "f", "t">>), JsUndef} : join(b, <<"p", "o", "s", "t", "s">>, <<"p", "o", "s", "t", "s", ".", "u", "s", "e", "r", "_", "i", "d", " ", "=", " ", "u", "s", "e", "r", "s", ".", "i", "d">>, type)
       \/ nestedSelect(b, <<"p", "o", "s", "t", "s">>, <<<<"i", "d">>>>)
       \/ \E i \in 1..MaxBuilderCalls : setEntryValue(b, i, JsNum(99))
  \/ clone

----------------------------------------------------------------------------
(* adapters/sqlite-adapter.ts: configuration, paths, the engine and the file *)

MaxCalls == 2

\* a file-system path: absolute or relative, and its segments
Path(abs, segs) == [abs |-> abs, segs |-> segs, given |-> TRUE]
NoPath == [abs |-> FALSE, segs |-> <<>>, given |-> FALSE]
MemorySentinel == Path(FALSE, <<":memory:">>)

\* path.resolve(p) against the working directory
PathResolve(cwd, p) == IF p.abs THEN p ELSE Path(TRUE, cwd.segs \o p.segs)
\* path.dirname(p)
PathDirname(p) == Path(p.abs, SubSeq(p.segs, 1, Len(p.segs) - 1))

\* factory.ts createHazoConnect, type 'sqlite', no path in the environment:
\* a relative database_path that does not start with ':memory:' is resolved
createHazoConnect(cfg) ==
  IF cfg.database_path.given /\ ~cfg.database_path.abs /\ cfg.database_path.segs[1] # ":memory:"
  THEN [cfg EXCEPT !.database_path = PathResolve(cfg.cwd, cfg.database_path)]
  ELSE cfg

\* normalizeConfig: a given database_path is path.resolve()d, read_only must be true itself,
\* empty initial_sql statements are dropped
normalizeConfig(cfg) ==
  [database_path |-> IF cfg.database_path.given THEN PathResolve(cfg.cwd, cfg.database_path)
                     ELSE NoPath,
   read_only |-> cfg.read_only = TRUE,
   initial_sql |-> SelectSeq(cfg.initial_sql, LAMBDA statement : statement # <<>>)]

sqliteConfig == normalizeConfig(createHazoConnect(config))
isReadOnlyMode == sqliteConfig.read_only
databasePath == sqliteConfig.database_path

\* the constructor throws when read_only is set without a database_path
ConstructorThrows(cfg) ==
  normalizeConfig(createHazoConnect(cfg)).read_only
  /\ ~normalizeConfig(createHazoConnect(cfg)).database_path.given

\* HazoConnectError as thrown by throwError; site names the throw site
Error(code, message, site) == [code |-> code, message |-> message, site |-> site]
NoError == Error("none", <<>>, "none")
ReadOnlyMessage == <<"S", "Q", "L", "i", "t", "e", " ", "d", "a", "t", "a", "b", "a", "s", "e", " ", "i", "s", " ", "c", "o", "n", "f", "i", "g", "u", "r", "e", "d", " ", "a", "s", " ", "r", "e", "a", "d", "-", "o", "n", "l", "y", " ", "a", "n", "d", " ", "c", "a", "n", "n", "o", "t", " ", "a", "c", "c", "e", "p", "t", " ", "w", "r", "i", "t", "e", " ", "o", "p", "e", "r", "a", "t", "i", "o", "n", "s">>

\* the engine's data and the snapshot a file holds; exists is false for no database / no file
Database(schema, rows) == [rows |-> rows, schema |-> schema, exists |-> TRUE]
Nothing == [rows |-> <<>>, schema |-> FALSE, exists |-> FALSE]

\* sql.js: the statement a text prepares to, by its leading keyword; a WITH prefix belongs
\* to the data statement that follows its common table expressions
EngineVerb(sql) ==
  LET Verb(words) ==
        LET After(positions) ==
              IF words[1] = <<"W", "I", "T", "H">> /\ positions # {} THEN words[SetMin(positions)]
              ELSE words[1]
        IN  After({i \in 2..Len(words) :
                     words[i] \in {<<"S", "E", "L", "E", "C", "T">>, <<"I", "N", "S", "E", "R", "T">>, <<"U", "P", "D", "A", "T", "E">>, <<"D", "E", "L", "E", "T", "E">>}})
      Upper(tokens) == [i \in 1..Len(tokens) |-> ToUpper(tokens[i])]
  IN  Verb(Upper(SplitSpaces(Trim(sql))))

\* database.prepare(sql); bind; step to the end: [ok, db, rows]
executeStatement(database, sql, params) ==
  LET Done(d, rows) == [ok |-> TRUE, rows |-> rows, db |-> d]
      Failed == [ok |-> FALSE, rows |-> <<>>, db |-> database]
      Run(verb) ==
        CASE verb = <<"C", "R", "E", "A", "T", "E">> -> Done([database EXCEPT !.schema = TRUE], <<>>)
          [] verb = <<"S", "E", "L", "E", "C", "T">> ->
               IF database.schema THEN Done(database, database.rows) ELSE Failed
          [] verb = <<"I", "N", "S", "E", "R", "T">> ->
               IF database.schema THEN Done([database EXCEPT !.rows = Append(@, 1)], <<1>>)
               ELSE Failed
          [] verb = <<"U", "P", "D", "A", "T", "E">> ->
               IF database.schema
               THEN Done([database EXCEPT !.rows = [i \in 1..Len(@) |-> 2]],
                         [i \in 1..Len(database.rows) |-> 2])
               ELSE Failed
          [] verb = <<"D", "E", "L", "E", "T", "E">> ->
               IF database.schema THEN Done([database EXCEPT !.rows = <<>>], database.rows)
               ELSE Failed
          [] OTHER -> Failed
  IN  Run(EngineVerb(sql))

\* executeStatements: each statement in order, stopping at the first the engine rejects;
\* executed counts the statements that ran
RECURSIVE executeStatements(_, _, _)
executeStatements(database, statements, results) ==
  LET Rest(r) ==
        IF ~r.ok THEN [ok |-> FALSE, rows |-> results, db |-> r.db, executed |-> 0]
        ELSE [executeStatements(r.db, Tail(statements), results \o r.rows)
                EXCEPT !.executed = @ + 1]
  IN  IF statements = <<>>
      THEN [ok |-> TRUE, rows |-> results, db |-> database, executed |-> 0]
      ELSE Rest(executeStatement(database, Head(statements).sql, Head(statements).params))

\* a variant that takes no statement for a mutating one
isMutatingSqlNever(sql) == FALSE

\* isMutatingSql: the first whitespace-separated word, upper-cased, is one of seven keywords
isMutatingSql(sql) ==
  ToUpper(SplitSpaces(Trim(sql))[1]) \in
    {<<"I", "N", "S", "E", "R", "T">>, <<"U", "P", "D", "A", "T", "E">>, <<"D", "E", "L", "E", "T", "E">>, <<"R", "E", "P", "L", "A", "C", "E">>, <<"C", "R", "E", "A", "T", "E">>, <<"D", "R", "O", "P">>, <<"A", "L", "T", "E", "R">>}

\* persistDatabase up to its first await: "none" when it returns without writing, else the
\* step that follows with the exported data
PersistSkipped(path) ==
  \/ ~path.given
  \/ isReadOnlyMode
  \/ path = MemorySentinel
  \/ (PathDirname(path).abs /\ Len(PathDirname(path).segs) = 1)

BenignCodes == {"EACCES", "EROFS", "ENOENT"}
FsOutcomes == {"ok", "EIO"} \cup BenignCodes

\* a variant that swallows every failure of the two steps
persistDatabaseLenient(path, mkdirOutcome, writeOutcome) ==
  IF (PathDirname(path).segs = <<>> \/ mkdirOutcome = "ok") /\ writeOutcome = "ok" THEN "written"
  ELSE "benign"

\* what the two awaited steps of persistDatabase (mkdir, then writeFile) come to, given
\* how each ends: "written", "benign" (a swallowed failure) or "thrown"
persistDatabase(path, mkdirOutcome, writeOutcome) ==
  LET dirPath == PathDirname(path)
      makesDirectory == dirPath.segs # <<>>
  IN  IF makesDirectory /\ mkdirOutcome \in BenignCodes THEN "benign"
      ELSE IF makesDirectory /\ mkdirOutcome # "ok" THEN "thrown"
      ELSE IF writeOutcome = "ok" THEN "written"
      ELSE IF writeOutcome \in BenignCodes THEN "benign"
      ELSE "thrown"

\* how the file system ended persistDatabase: the code of the first of the two steps that
\* failed, ok when neither did
PersistCode(path, mkdirOutcome, writeOutcome) ==
  IF PathDirname(path).segs # <<>> /\ mkdirOutcome # "ok" THEN mkdirOutcome ELSE writeOutcome

\* the failure persistDatabase throws: the first of the two steps that failed
PersistError(path, mkdirOutcome, writeOutcome) ==
  IF PathDirname(path).segs # <<>> /\ mkdirOutcome # "ok"
  THEN Error(mkdirOutcome, <<"m", "k", "d", "i", "r", " ", "f", "a", "i", "l", "e", "d">>, "io")
  ELSE Error(writeOutcome, <<"w", "r", "i", "t", "e", "F", "i", "l", "e", " ", "f", "a", "i", "l", "e", "d">>, "io")

\* a variant that lets every call through
ensureWritableOff == Ok(<<>>)

\* ensureWritable throws a CONFIG_ERROR on a read-only adapter
ensureWritable ==
  IF isReadOnlyMode THEN Err("read-only") ELSE Ok(<<>>)

normalizeInsertBody(body) ==
  IF body[1] = "arr"
  THEN IF Len(body[2]) = 0 THEN Err("payload")
       ELSE IF \E i \in 1..Len(body[2]) : ~isPlainObject(body[2][i]) THEN Err("payload")
       ELSE Ok(body)
  ELSE IF isPlainObject(body) THEN Ok(body)
  ELSE Err("payload")

normalizeUpdateBody(body) ==
  IF ~isPlainObject(body) THEN Err("payload")
  ELSE IF Len(ObjectKeys(body)) = 0 THEN Err("payload")
  ELSE Ok(body)

normalizeRawParams(params) ==
  IF params[1] \in {"undef", "null"} THEN Ok(<<>>)
  ELSE IF params[1] # "arr" THEN Err("params")
  ELSE Ok(params[2])

\* what a call is to run: its statements, or the failure it throws before it runs any
Plan(statements, failure) == [statements |-> statements, failure |-> failure]

\* translateWithHandling: a SqliteTranslationError becomes a CONFIG_ERROR; the call goes on
\* with the statements of a translation that returned
translateWithHandling(translation) ==
  IF translation.ok THEN Plan(translation.v, "none")
  ELSE Plan(<<>>, "translation")

\* executeStatements(database, [translation]): the one statement of a SELECT, UPDATE or DELETE
Single(plan) ==
  IF plan.failure = "none" THEN Plan(<<plan.statements>>, "none") ELSE plan

executeSelect(builder) ==
  Single(translateWithHandling(translateSelect(builder)))

\* a variant that drops the rows that are no plain objects and goes on with the others
executeInsertPartial(builder, body) ==
  LET Insert(rows) ==
        IF rows = <<>> THEN Plan(<<>>, "payload")
        ELSE translateWithHandling(translateInsert(builder, JsArr(rows)))
  IN  Insert(SelectSeq(IF body[1] = "arr" THEN body[2] ELSE <<body>>, isPlainObject))

executeInsert(builder, body) ==
  LET Insert(rows) ==
        IF ~rows.ok THEN Plan(<<>>, rows.err)
        ELSE translateWithHandling(translateInsert(builder, rows.v))
  IN  Insert(normalizeInsertBody(body))

executeUpdate(builder, body) ==
  LET Update(updates) ==
        IF ~updates.ok THEN Plan(<<>>, updates.err)
        ELSE Single(translateWithHandling(translateUpdate(builder, updates.v)))
  IN  Update(normalizeUpdateBody(body))

executeDelete(builder) ==
  Single(translateWithHandling(translateDelete(builder)))

\* the errors throwError builds before the engine is reached; site names the throw site
ConfigError(site) ==
  Error("CONFIG_ERROR",
        IF site = "read-only" THEN ReadOnlyMessage ELSE <<"i", "n", "v", "a", "l", "i", "d", " ", "r", "e", "q", "u", "e", "s", "t">>,
        site)

\* one call on the adapter: the request it was made with, where it stands, what it is to
\* run, and what it has done
Call(api, persists, pc, plan, error) ==
  [rows |-> <<>>, statements |-> plan.statements, executed |-> 0, api |-> api,
   persists |-> persists, pc |-> pc,
   error |-> error, request |-> "none", snap |-> Nothing, persisted |-> "none", io |-> "none"]
Idle == Call("none", FALSE, "idle", Plan(<<>>, "none"), NoError)

\* query(builder, method, body) up to its first await
query(builder, method, body) ==
  LET Start(writes, plan) ==
        IF plan.failure # "none"
        THEN Call("query", writes, "rejected", Plan(<<>>, "none"), ConfigError(plan.failure))
        ELSE Call("query", writes, "awaitDb", plan, NoError)
      Writing(plan) ==
        IF ~ensureWritable.ok
        THEN Call("query", TRUE, "rejected", Plan(<<>>, "none"),
                  ConfigError(ensureWritable.err))
        ELSE Start(TRUE, plan)
      Switch(normalizedMethod) ==
        CASE normalizedMethod = <<"G", "E", "T">> -> Start(FALSE, executeSelect(builder))
          [] normalizedMethod = <<"P", "O", "S", "T">> -> Writing(executeInsert(builder, body))
          [] normalizedMethod \in {<<"P", "U", "T">>, <<"P", "A", "T", "C", "H">>} -> Writing(executeUpdate(builder, body))
          [] normalizedMethod = <<"D", "E", "L", "E", "T", "E">> -> Writing(executeDelete(builder))
          [] OTHER -> Call("query", FALSE, "rejected", Plan(<<>>, "none"),
                           Error("VALIDATION_ERROR", <<"U", "n", "s", "u", "p", "p", "o", "r", "t", "e", "d", " ", "m", "e", "t", "h", "o", "d">>, "method"))
  IN  Switch(ToUpper(method))

\* rawQuery(sql, {params}) up to its first await
rawQuery(sql, rawParams) ==
  LET Start(params, mutating) ==
        IF ~params.ok
        THEN Call("rawQuery", mutating, "rejected", Plan(<<>>, "none"),
                  ConfigError(params.err))
        ELSE IF mutating /\ ~ensureWritable.ok
        THEN Call("rawQuery", mutating, "rejected", Plan(<<>>, "none"),
                  ConfigError(ensureWritable.err))
        ELSE Call("rawQuery", mutating, "awaitDb",
                  Plan(<<TranslatedQuery(sql, params.v)>>, "none"), NoError)
  IN  Start(normalizeRawParams(rawParams), isMutatingSql(sql))

\* handleSqliteError: an error that carries a code is rethrown, any other becomes QUERY_ERROR
handleSqliteError(error) ==
  IF error.code # "none" THEN error
  ELSE Error("QUERY_ERROR", <<"S", "Q", "L", "i", "t", "e", " ", "r", "e", "q", "u", "e", "s", "t", " ", "f", "a", "i", "l", "e", "d">>, error.site)

----------------------------------------------------------------------------
(* adapters/sqlite-adapter.ts: initialisation and the calls, step by step   *)

\* the requests made on the adapter
Users == Descriptor(TableUsers, <<>>, <<Cond(<<"i", "d">>, "eq", JsNum(1))>>, <<>>, <<>>,
                    JsNull, JsNull, <<>>, <<>>)
NoTable == Descriptor(JsNull, <<>>, <<>>, <<>>, <<>>, JsNull, JsNull, <<>>, <<>>)
Row(name, done) == JsObj(<<Entry(<<"n", "a", "m", "e">>, JsStr(name)), Entry(<<"d", "o", "n", "e">>, JsBool(done))>>)
Request(builder, method, body) == [builder |-> builder, body |-> body, method |-> method]

QueryRequests ==
  [get |-> Request(Users, <<"G", "E", "T">>, JsUndef),
   getNoTable |-> Request(NoTable, <<"G", "E", "T">>, JsUndef),
   postRows |-> Request(Users, <<"P", "O", "S", "T">>, JsArr(<<Row(<<"a">>, FALSE), Row(<<"b">>, TRUE)>>)),
   postNotObject |-> Request(Users, <<"P", "O", "S", "T">>, JsArr(<<Row(<<"a">>, FALSE), JsNum(5)>>)),
   postOtherColumns |-> Request(Users, <<"P", "O", "S", "T">>,
                                JsArr(<<Row(<<"a">>, FALSE), JsObj(<<Entry(<<"n", "a", "m", "e">>, JsNull)>>)>>)),
   patch |-> Request(Users, <<"P", "A", "T", "C", "H">>, Row(<<"c">>, TRUE)),
   putEmpty |-> Request(Users, <<"P", "U", "T">>, JsObj(<<>>)),
   delete |-> Request(Users, <<"D", "E", "L", "E", "T", "E">>, JsUndef)]

RawRequest(sql, params) == [params |-> params, sql |-> sql]
RawRequests ==
  [select |-> RawRequest(<<"S", "E", "L", "E", "C", "T", " ", "*", " ", "F", "R", "O", "M", " ", "u", "s", "e", "r", "s">>, JsUndef),
   delete |-> RawRequest(<<" ", " ", "d", "e", "l", "e", "t", "e", " ", "f", "r", "o", "m", " ", "u", "s", "e", "r", "s">>, JsNull),
   insert |-> RawRequest(<<"I", "N", "S", "E", "R", "T", " ", "I", "N", "T", "O", " ", "u", "s", "e", "r", "s", " ", "(", "n", "a", "m", "e", ",", " ", "d", "o", "n", "e", ")", " ", "V", "A", "L", "U", "E", "S", " ", "(", "?", ",", " ", "?", ")">>,
                         JsArr(<<JsStr(<<"a">>), JsBool(TRUE)>>)),
   withDelete |-> RawRequest(<<"W", "I", "T", "H", " ", "x", " ", "A", "S", " ", "(", "S", "E", "L", "E", "C", "T", " ", "1", ")", " ", "D", "E", "L", "E", "T", "E", " ", "F", "R", "O", "M", " ", "u", "s", "e", "r", "s">>, JsUndef),
   paramsNotArray |-> RawRequest(<<"S", "E", "L", "E", "C", "T", " ", "*", " ", "F", "R", "O", "M", " ", "u", "s", "e", "r", "s">>, JsNum(1))]

\* database.exec(statement) of one seed statement
exec(database, statement) == executeStatement(database, statement, <<>>)

\* a variant that runs no seed statement
runInitialSqlNone(database, statements, run) ==
  [ok |-> TRUE, db |-> database, run |-> run]

\* the initial_sql loop: [ok, db, run], run the statements executed
RECURSIVE runInitialSql(_, _, _)
runInitialSql(database, statements, run) ==
  LET Rest(r) ==
        IF ~r.ok THEN [ok |-> FALSE, db |-> r.db, run |-> run]
        ELSE runInitialSql(r.db, Tail(statements), Append(run, Head(statements)))
  IN  IF statements = <<>> THEN [ok |-> TRUE, db |-> database, run |-> run]
      ELSE Rest(exec(database, Head(statements)))

\* initializeDatabase: where it stands, the data it exported, the error it threw, the seed
\* statements it ran, whether it loaded the file, and how its persistDatabase ended
Initialisation(pc, snap, error, seedsRun, loaded) ==
  [pc |-> pc, error |-> error, snap |-> snap, persisted |-> "none", seedsRun |-> seedsRun,
   loaded |-> loaded]

EngineError == Error("none", <<"e", "n", "g", "i", "n", "e", " ", "e", "r", "r", "o", "r">>, "engine")

\* the branch of initializeDatabase that creates the database, the seeds having run
Created(seeded, persists) ==
  IF ~seeded.ok
  THEN /\ init' = Initialisation("failed", Nothing, EngineError, seeded.run, FALSE)
       /\ UNCHANGED db
  ELSE /\ db' = seeded.db
       /\ init' = IF persists
                  THEN Initialisation("persist", seeded.db, NoError, seeded.run, FALSE)
                  ELSE Initialisation("ready", Nothing, NoError, seeded.run, FALSE)

\* initializeDatabase up to its first await on the file system or to its end
InitializeDatabase ==
  /\ init.pc = "start"
  /\ LET Initialise(path, readOnly) ==
           IF path.given /\ disk.exists
           THEN /\ db' = disk
                /\ init' = Initialisation("ready", Nothing, NoError, <<>>, TRUE)
           ELSE IF readOnly /\ path.given
           THEN /\ init' = Initialisation("failed", Nothing, ConfigError("not-found"),
                                          <<>>, FALSE)
                /\ UNCHANGED db
           ELSE Created(runInitialSql(Database(FALSE, <<>>), sqliteConfig.initial_sql, <<>>),
                        path.given /\ ~readOnly /\ ~PersistSkipped(path))
     IN  Initialise(databasePath, isReadOnlyMode)
  /\ UNCHANGED <<config, disk, fileWrites, calls, trVars, qbVars, modules>>

\* the file and the write count after persistDatabase has ended with outcome
Written(outcome, snap) ==
  /\ disk' = IF outcome = "written" THEN snap ELSE disk
  /\ fileWrites' = IF outcome = "written" THEN fileWrites + 1 ELSE fileWrites

\* how persistDatabase may end at path, mkdir and writeFile each ending in any way: the
\* outcome and, when it throws, the error
PersistEnds(path) ==
  { [code |-> PersistCode(path, mkdirOutcome, writeOutcome),
     error |-> IF persistDatabase(path, mkdirOutcome, writeOutcome) = "thrown"
               THEN PersistError(path, mkdirOutcome, writeOutcome)
               ELSE NoError,
     outcome |-> persistDatabase(path, mkdirOutcome, writeOutcome)] :
      mkdirOutcome \in FsOutcomes, writeOutcome \in FsOutcomes }

\* the rest of persistDatabase within initializeDatabase: mkdir and writeFile
InitPersist ==
  /\ init.pc = "persist"
  /\ \E end \in PersistEnds(databasePath) :
       /\ Written(end.outcome, init.snap)
       /\ init' = IF end.outcome = "thrown"
                  THEN [init EXCEPT !.pc = "failed", !.persisted = end.outcome,
                                    !.error = end.error]
                  ELSE [init EXCEPT !.pc = "ready", !.persisted = end.outcome]
  /\ UNCHANGED <<config, db, calls, trVars, qbVars, modules>>

\* calls are made in the order of their numbers
MayStart(i) ==
  /\ calls[i].pc = "idle"
  /\ \A j \in 1..(i - 1) : calls[j].pc # "idle"

Query(i) ==
  /\ MayStart(i)
  /\ \E name \in DOMAIN QueryRequests :
       LET request == QueryRequests[name]
       IN  calls' = [calls EXCEPT ![i] =
                       [query(request.builder, request.method, request.body)
                          EXCEPT !.request = name]]
  /\ UNCHANGED <<config, disk, fileWrites, db, init, trVars, qbVars, modules>>

RawQuery(i) ==
  /\ MayStart(i)
  /\ \E name \in DOMAIN RawRequests :
       LET request == RawRequests[name]
       IN  calls' = [calls EXCEPT ![i] =
                       [rawQuery(request.sql, request.params) EXCEPT !.request = name]]
  /\ UNCHANGED <<config, disk, fileWrites, db, init, trVars, qbVars, modules>>

\* a call resumes after await getDatabase(): its statements run, the data is exported
Resume(i) ==
  /\ calls[i].pc = "awaitDb"
  /\ init.pc \in {"ready", "failed"}
  /\ LET Ran(ran, persists) ==
           /\ db' = ran.db
           /\ calls' = [calls EXCEPT ![i] =
                IF ~ran.ok
                THEN [@ EXCEPT !.pc = "rejected", !.executed = ran.executed,
                               !.error = handleSqliteError(EngineError)]
                ELSE IF persists
                THEN [@ EXCEPT !.pc = "persist", !.executed = ran.executed,
                               !.rows = ran.rows, !.snap = ran.db]
                ELSE [@ EXCEPT !.pc = "resolved", !.executed = ran.executed,
                               !.rows = ran.rows]]
     IN  IF init.pc = "failed"
         THEN /\ calls' = [calls EXCEPT ![i].pc = "rejected",
                                        ![i].error = handleSqliteError(init.error)]
              /\ UNCHANGED db
         ELSE Ran(executeStatements(db, calls[i].statements, <<>>),
                  calls[i].persists /\ ~PersistSkipped(databasePath))
  /\ UNCHANGED <<config, disk, fileWrites, init, trVars, qbVars, modules>>

\* the call after persistDatabase has ended: rejected with the error thrown, resolved
\* otherwise; the call keeps how the file system ended it when that is to be noted
PersistEnded(call, end, noted) ==
  IF end.outcome = "thrown"
  THEN [call EXCEPT !.pc = "rejected", !.persisted = end.outcome,
                    !.io = IF noted THEN end.code ELSE "none",
                    !.error = handleSqliteError(end.error)]
  ELSE [call EXCEPT !.pc = "resolved", !.persisted = end.outcome,
                    !.io = IF noted THEN end.code ELSE "none"]

\* the rest of persistDatabase within a call: mkdir and writeFile, then the call returns
Persist(i) ==
  /\ calls[i].pc = "persist"
  /\ \E end \in PersistEnds(databasePath) :
       /\ Written(end.outcome, calls[i].snap)
       /\ calls' = [calls EXCEPT ![i] = PersistEnded(@, end, FALSE)]
  /\ UNCHANGED <<config, db, init, trVars, qbVars, modules>>

\* the same step with the file system's answer noted in the call
PersistNoted(i) ==
  /\ calls[i].pc = "persist"
  /\ \E end \in PersistEnds(databasePath) :
       /\ Written(end.outcome, calls[i].snap)
       /\ calls' = [calls EXCEPT ![i] = PersistEnded(@, end, TRUE)]
  /\ UNCHANGED <<config, db, init, trVars, qbVars, modules>>

----------------------------------------------------------------------------
(* utils/where-builder.ts, with quoteField at its default, quoteIdentifier  *)

\* a filter of the admin service, which names its column 'column'
Filter(column, operator, value) == [value |-> value, operator |-> operator, column |-> column]

\* String(value ?? fallback)
StringOr(value, fallback) == IF value[1] \in {"null", "undef"} THEN fallback ELSE ToStringJs(value)

\* the switch of where-builder's translateCondition, the field already quoted
FilterSwitch(field, condition) ==
  LET operator == condition.operator
      value == condition.value
      isNullish == value[1] \in {"null", "undef"}
      One(op) == Ok(Clause(field \o op, <<normalizeValue(value)>>))
  IN  CASE operator = "eq" ->
             IF isNullish THEN Ok(Clause(field \o <<" ", "I", "S", " ", "N", "U", "L", "L">>, <<>>))
             ELSE One(<<" ", "=", " ", "?">>)
        [] operator = "neq" ->
             IF isNullish THEN Ok(Clause(field \o <<" ", "I", "S", " ", "N", "O", "T", " ", "N", "U", "L", "L">>, <<>>))
             ELSE One(<<" ", "!", "=", " ", "?">>)
        [] operator = "gt"  -> One(<<" ", ">", " ", "?">>)
        [] operator = "gte" -> One(<<" ", ">", "=", " ", "?">>)
        [] operator = "lt"  -> One(<<" ", "<", " ", "?">>)
        [] operator = "lte" -> One(<<" ", "<", "=", " ", "?">>)
        [] operator = "like" ->
             Ok(Clause(field \o <<" ", "L", "I", "K", "E", " ", "?">>, <<JsStr(StringOr(value, <<>>))>>))
        [] operator = "ilike" ->
             Ok(Clause(<<"L", "O", "W", "E", "R", "(">> \o field \o <<")", " ", "L", "I", "K", "E", " ", "L", "O", "W", "E", "R", "(", "?", ")">>, <<JsStr(StringOr(value, <<>>))>>))
        [] operator = "is" ->
             LET normalized == ToLower(StringOr(value, <<"n", "u", "l", "l">>))
             IN  IF normalized = <<"n", "u", "l", "l">> THEN Ok(Clause(field \o <<" ", "I", "S", " ", "N", "U", "L", "L">>, <<>>))
                 ELSE IF normalized = <<"n", "o", "t", ".", "n", "u", "l", "l">> \/ normalized = <<"n", "o", "t", " ", "n", "u", "l", "l">>
                 THEN Ok(Clause(field \o <<" ", "I", "S", " ", "N", "O", "T", " ", "N", "U", "L", "L">>, <<>>))
                 ELSE Err("Error")
        [] operator = "in" ->
             LET values == IF value[1] = "arr" THEN value[2] ELSE <<value>>
             IN  IF Len(values) = 0 THEN Ok(Clause(<<"1", "=", "0">>, <<>>))
                 ELSE Ok(Clause(field \o <<" ", "I", "N", " ", "(">> \o Placeholders(Len(values)) \o <<")">>,
                                [i \in 1..Len(values) |-> normalizeValue(values[i])]))
        [] OTHER -> Err("Error")

\* translateCondition of where-builder.ts: 'field' in condition ? field : column
FieldName(condition) == IF "field" \in DOMAIN condition THEN condition.field ELSE condition.column

translateFilter(condition) ==
  Bind(quoteIdentifier(FieldName(condition)), LAMBDA field : FilterSwitch(field, condition))

\* buildWhereClause of where-builder.ts (build_where_clause): every clause is kept
buildWhereClauseOfFilters(filters) ==
  IF Len(filters) = 0 THEN Ok(Clause(<<>>, <<>>))
  ELSE BindAll([i \in 1..Len(filters) |-> translateFilter(filters[i])],
               LAMBDA conditions :
                 Ok(Clause(<<" ", "W", "H", "E", "R", "E", " ">> \o JoinWith([i \in 1..Len(conditions) |-> conditions[i].clause], <<" ", "A", "N", "D", " ">>),
                           Concat([i \in 1..Len(conditions) |-> conditions[i].params]))))

----------------------------------------------------------------------------
(* The admin service's adapter and the Next.js singleton                    *)

MaxAdapters == 3

\* process.cwd()
Cwd == Path(TRUE, <<"home", "app">>)

\* the adapters constructed so far are numbered from 1; 0 stands for null
Null == 0
Adapter(type, database_path) == [type |-> type, database_path |-> database_path]
IsSqliteAdapter(m, a) == a # Null /\ m.adapters[a].type = "sqlite"

\* JSON.stringify of a configuration, null before there is one, and the marker
\* registerSqliteAdapter stores
Signature(kind, type, path, enableAdminUi) ==
  [kind |-> kind, type |-> type, path |-> path, enableAdminUi |-> enableAdminUi]
NoSignature == Signature("null", "", NoPath, FALSE)
RegisteredSignature == Signature("__registered__", "", NoPath, FALSE)

\* a variant that keeps an adapter registered earlier
registerSqliteAdapterOnce(m, adapter) ==
  IF m.registeredAdapter # Null THEN m
  ELSE [m EXCEPT !.registeredAdapter = adapter, !.cachedAdapter = adapter,
                 !.cachedConfigSignature = RegisteredSignature]

registerSqliteAdapter(m, adapter) ==
  [m EXCEPT !.registeredAdapter = adapter, !.cachedAdapter = adapter,
            !.cachedConfigSignature = RegisteredSignature]

\* the call of registerSqliteAdapter, noted as the last registration; no admin operation
\* has run since
Register(m, adapter) ==
  [registerSqliteAdapter(m, adapter) EXCEPT !.noted.registered = adapter, !.noted.admin = Null]

\* factory createHazoConnect: constructs the adapter of the type asked for and, for a
\* SQLite adapter with enable_admin_ui true, registers it; the new adapter is the last one
Construct(m, type, path, enable_admin_ui) ==
  LET made == [m EXCEPT !.adapters = Append(@, Adapter(type, PathResolve(Cwd, path)))]
  IN  IF type = "sqlite" /\ enable_admin_ui THEN Register(made, Len(made.adapters)) ELSE made

\* setup createHazoConnectFromEnv: the path option, else the environment's path
createHazoConnectFromEnv(m, options) ==
  Construct(m, options.type, IF options.sqlitePath.given THEN options.sqlitePath ELSE m.env,
            options.enableAdminUi)

\* getHazoConnectSingleton, when there is no instance or the signature differs
SingletonCreated(m, options, configSignature) ==
  LET made == createHazoConnectFromEnv(m, options)
      kept == [made EXCEPT !.singletonInstance = Len(made.adapters),
                           !.singletonConfig = configSignature]
  IN  IF options.type = "sqlite" THEN Register(kept, kept.singletonInstance) ELSE kept

\* resolveAdminConfig and JSON.stringify(config)
AdminSignature(m) == Signature("config", "sqlite", PathResolve(Cwd, m.env), FALSE)

Room(m) == Len(m.adapters) < MaxAdapters

\* what is noted of a call: its name, the adapter getHazoConnectSingleton returned, the
\* adapter an admin operation ran on and whether the operation constructed it
NotedCall(m, name) == [m EXCEPT !.noted.call = name]
Returned(m, adapter) ==
  [m EXCEPT !.noted.call = "getHazoConnectSingleton", !.noted.returned = adapter]
Served(m, adapter, constructed) ==
  [m EXCEPT !.noted.call = "getSqliteAdapter", !.noted.admin = adapter,
            !.noted.constructed = constructed]

\* process.env.HAZO_CONNECT_SQLITE_PATH = path
SetEnv(path) ==
  /\ modules.env # path
  /\ modules' = NotedCall([modules EXCEPT !.env = path], "setEnv")
  /\ UNCHANGED <<trVars, qbVars, adVars>>

\* the application calls the factory itself
CreateHazoConnect(type, path, enable_admin_ui) ==
  /\ Room(modules)
  /\ modules' = NotedCall(Construct(modules, type, path, enable_admin_ui), "createHazoConnect")
  /\ UNCHANGED <<trVars, qbVars, adVars>>

\* the application registers an adapter it holds
RegisterSqliteAdapter(adapter) ==
  /\ IsSqliteAdapter(modules, adapter)
  /\ modules' = NotedCall(Register(modules, adapter), "registerSqliteAdapter")
  /\ UNCHANGED <<trVars, qbVars, adVars>>

clearRegisteredAdapter ==
  /\ modules' = NotedCall([modules EXCEPT !.registeredAdapter = Null, !.cachedAdapter = Null,
                                     !.cachedConfigSignature = NoSignature,
                                     !.noted.registered = Null, !.noted.admin = Null],
                       "clearRegisteredAdapter")
  /\ UNCHANGED <<trVars, qbVars, adVars>>

getHazoConnectSingleton(options) ==
  LET configSignature ==
        Signature("config", options.type,
                  IF options.sqlitePath.given THEN options.sqlitePath ELSE modules.env,
                  options.enableAdminUi)
  IN  /\ IF modules.singletonInstance = Null \/ modules.singletonConfig # configSignature
         THEN /\ Room(modules)
              /\ LET made == SingletonCreated(modules, options, configSignature)
                 IN  modules' = Returned(made, made.singletonInstance)
         ELSE modules' = Returned(modules, modules.singletonInstance)
      /\ UNCHANGED <<trVars, qbVars, adVars>>

resetHazoConnectSingleton ==
  /\ modules.singletonInstance # Null
  /\ modules' = NotedCall([modules EXCEPT !.singletonInstance = Null,
                                     !.singletonConfig = NoSignature], "resetHazoConnectSingleton")
  /\ UNCHANGED <<trVars, qbVars, adVars>>

\* an operation of the admin service: getSqliteAdapter gives the adapter it runs on
getSqliteAdapter ==
  /\ IF modules.registeredAdapter # Null
     THEN modules' = Served(modules, modules.registeredAdapter, FALSE)
     ELSE LET signature == AdminSignature(modules)
          IN  IF modules.cachedAdapter = Null \/ modules.cachedConfigSignature # signature
              THEN /\ Room(modules)
                   /\ LET made == Construct(modules, "sqlite", modules.env, FALSE)
                      IN  modules' = Served([made EXCEPT !.cachedAdapter = Len(made.adapters),
                                                        !.cachedConfigSignature = signature],
                                            Len(made.adapters), TRUE)
              ELSE modules' = Served(modules, modules.cachedAdapter, FALSE)
  /\ UNCHANGED <<trVars, qbVars, adVars>>

\* the module-level variables as the modules are loaded, with what has been noted of the
\* calls: the last call, the adapter last registered and not cleared, the adapter last
\* returned by getHazoConnectSingleton, the adapter the last admin operation since the
\* last registration or clearing ran on and whether that operation constructed it
ModulesLoaded(env) ==
  [noted |-> [call |-> "none", registered |-> Null, admin |-> Null, returned |-> Null,
              constructed |-> FALSE],
   adapters |-> <<>>,
   registeredAdapter |-> Null, cachedAdapter |-> Null, cachedConfigSignature |-> NoSignature,
   env |-> env, singletonInstance |-> Null, singletonConfig |-> NoSignature]

EnvSamples ==
  {Path(FALSE, <<"data", "app.db">>), Path(TRUE, <<"home", "app", "data", "app.db">>),
   Path(TRUE, <<"tmp", "app.db">>)}
Options(type, sqlitePath, enableAdminUi) ==
  [type |-> type, enableAdminUi |-> enableAdminUi, sqlitePath |-> sqlitePath]
OptionSamples ==
  {Options(t, p, e) : t \in {"sqlite", "postgrest"},
                      p \in {NoPath, Path(TRUE, <<"tmp", "app.db">>)}, e \in BOOLEAN}

MdIdle == modules = ModulesLoaded(NoPath)
MdInit == \E env \in EnvSamples : modules = ModulesLoaded(env)

MdNext ==
  \/ \E path \in EnvSamples : SetEnv(path)
  \/ \E type \in {"sqlite", "postgrest"}, enable_admin_ui \in BOOLEAN :
       CreateHazoConnect(type, Path(TRUE, <<"tmp", "app.db">>), enable_admin_ui)
  \/ \E adapter \in 1..Len(modules.adapters) : RegisterSqliteAdapter(adapter)
  \/ clearRegisteredAdapter
  \/ \E options \in OptionSamples : getHazoConnectSingleton(options)
  \/ resetHazoConnectSingleton
  \/ getSqliteAdapter
\* the configurations the adapter is constructed with, and what the file holds beforehand
PathSamples ==
  {NoPath, MemorySentinel, Path(FALSE, <<"data", "app.db">>), Path(TRUE, <<"tmp", "app.db">>)}
CreateTable == <<"C", "R", "E", "A", "T", "E", " ", "T", "A", "B", "L", "E", " ", "u", "s", "e", "r", "s", " ", "(", "n", "a", "m", "e", " ", "T", "E", "X", "T", ",", " ", "d", "o", "n", "e", " ", "I", "N", "T", "E", "G", "E", "R", ")">>
InsertSeed == <<"I", "N", "S", "E", "R", "T", " ", "I", "N", "T", "O", " ", "u", "s", "e", "r", "s", " ", "(", "n", "a", "m", "e", ")", " ", "V", "A", "L", "U", "E", "S", " ", "(", "'", "s", "e", "e", "d", "'", ")">>
AllSeeds == <<<<>>, CreateTable, InsertSeed>>
SeedSamples == {<<>>, AllSeeds, <<InsertSeed>>}
Config(read_only, database_path, initial_sql) ==
  [cwd |-> Cwd, database_path |-> database_path, read_only |-> read_only,
   initial_sql |-> initial_sql]
ConfigSamples ==
  {Config(r, p, s) : r \in BOOLEAN, p \in PathSamples, s \in SeedSamples}
ExistingFile == Database(TRUE, <<1>>)

NotInitialised == Initialisation("start", Nothing, NoError, <<>>, FALSE)

\* new SqliteAdapter(config) has returned; initializeDatabase has not yet run
\* (a read-only adapter and an adapter whose file exists run no seed: AllSeeds stands for
\* every seed list there)
AdInit ==
  /\ config \in {c \in ConfigSamples :
                   ~ConstructorThrows(c) /\ (c.read_only => c.initial_sql = AllSeeds)}
  /\ disk \in IF config.database_path.given /\ config.initial_sql = AllSeeds
              THEN {Nothing, ExistingFile} ELSE {Nothing}
  /\ fileWrites = 0
  /\ db = Nothing
  /\ init = NotInitialised
  /\ calls = [i \in 1..MaxCalls |-> Idle]

AdIdle ==
  /\ config = Config(FALSE, NoPath, <<>>)
  /\ disk = Nothing
  /\ fileWrites = 0
  /\ db = Nothing
  /\ init = NotInitialised
  /\ calls = [i \in 1..MaxCalls |-> Idle]

AdNext ==
  \/ InitializeDatabase
  \/ InitPersist
  \/ \E i \in 1..MaxCalls : Query(i)
  \/ \E i \in 1..MaxCalls : RawQuery(i)
  \/ \E i \in 1..MaxCalls : Resume(i)
  \/ \E i \in 1..MaxCalls : Persist(i)

\* one caller, with the file system's answers noted
PsNext ==
  \/ InitializeDatabase
  \/ InitPersist
  \/ Query(1)
  \/ RawQuery(1)
  \/ Resume(1)
  \/ PersistNoted(1)

----------------------------------------------------------------------------
(* Specifications                                                           *)

InitTranslate == TrInit /\ QbIdle /\ AdIdle /\ MdIdle
InitBuilder == QbInit /\ TrIdle /\ AdIdle /\ MdIdle
InitAdapter == AdInit /\ TrIdle /\ QbIdle /\ MdIdle

SpecTranslate == InitTranslate /\ [][TrNext]_vars
SpecBuilder == InitBuilder /\ [][QbNext]_vars
SpecAdapter == InitAdapter /\ [][AdNext]_vars
SpecPersist == InitAdapter /\ [][PsNext]_vars

----------------------------------------------------------------------------
(* The functions that compile one fragment, applied to bounded inputs       *)

MaxValues == 2
MaxIdentifierLen == 3

\* the values a condition may carry: scalars, texts for 'is', and arrays for 'in'
ElementSamples == {JsNull, JsUndef, JsNum(1), JsBool(TRUE), DateSample}
ValueSamples ==
  {JsNull, JsUndef, JsNum(5), JsFrac, JsBool(FALSE), DateSample,
   JsStr(<<"n", "u", "l", "l">>), JsStr(<<"N", "O", "T", ".", "N", "U", "L", "L">>), JsStr(<<"N", "o", "t", " ", "N", "u", "l", "l">>), JsStr(<<"n", "o", "t", "_", "n", "u", "l", "l">>),
   JsArr(<<JsStr(<<"n", "u", "l", "l">>)>>)}
    \cup {JsArr(vs) : vs \in SeqsUpTo(ElementSamples, MaxValues)}

OperatorSamples ==
  {"eq", "neq", "gt", "gte", "lt", "lte", "like", "ilike", "is", "in", "or", "IS", "between"}

FieldSamples == {<<"n", "a", "m", "e">>, <<"t", ".", "n", "a", "m", "e">>, <<"b", "a", "d", "-", "n", "a", "m", "e">>}

\* every text of at most MaxIdentifierLen characters over a letter of each case, the
\* underscore, a digit, the dot and the hyphen
IdentifierChars == {"a", "B", "_", "1", ".", "-"}
IdentifierSamples == SeqsUpTo(IdentifierChars, MaxIdentifierLen)

ConditionSamples ==
  {Cond(f, o, v) : f \in FieldSamples, o \in OperatorSamples, v \in ValueSamples}
    \cup {Cond(f, "eq", JsNum(5)) : f \in IdentifierSamples}
    \cup {Filter(<<"n", "a", "m", "e">>, o, v) : o \in {"eq", "is", "in", "like", "or"}, v \in {JsNull, JsBool(FALSE), JsArr(<<>>)}}

\* one condition, or none, or two
FilterSamples ==
  {<<c>> : c \in ConditionSamples}
    \cup {<<>>}
    \cup {<<Cond(<<"i", "d">>, "eq", JsNum(5)), c>> :
            c \in {Cond(<<"n", "a", "m", "e">>, "in", JsArr(<<JsNum(1), JsBool(TRUE)>>)), Cond(<<"n", "a", "m", "e">>, "or", JsNum(1))}}

\* join conditions: one equality in several spacings, and the shapes that are none
OnSamples ==
  {<<"a", ".", "i", "d", " ", "=", " ", "b", ".", "i", "d">>, <<"a", ".", "i", "d", "=", "b", ".", "i", "d">>, <<" ", "a", ".", "i", "d", " ", " ", "=", "\t", "b", ".", "i", "d", " ">>, <<"i", "d", " ", "=", " ", "b", ".", "i", "d">>, <<"a", ".", "i", "d", " ", "=", " ", "b", ".", "c", ".", "i", "d">>,
   <<"a", ".", "i", "d", " ", "=", "=", " ", "b", ".", "i", "d">>, <<"a", ".", "i", "d", " ", "=", " ", "b", ".", "i", "d", " ", "=", " ", "c", ".", "i", "d">>, <<"a", ".", "i", "d">>, <<"=", " ", "b", ".", "i", "d">>, <<"a", ".", "i", "d", " ", "=", " ">>, <<>>,
   <<"a", ".", "i", "d", " ", "=", " ", "b", ".", "*">>, <<"a", ".", "b", "a", "d", "-", "n", "a", "m", "e", " ", "=", " ", "b", ".", "i", "d">>, <<"a", ".", "i", "d", " ", "=", " ", "1">>, <<"a", ".", ".", "i", "d", " ", "=", " ", "b", ".", "i", "d">>, <<"a", ".", " ", "i", "d", " ", "=", " ", "b", ".", "i", "d">>,
   <<"a", ".", "i", "d", " ", "=", " ", "b", ".", "i", "d", " ", "A", "N", "D", " ", "a", ".", "x", " ", "=", " ", "b", ".", "x">>, <<"a", ".", "i", "d", " ", ">", " ", "b", ".", "i", "d">>}

\* join targets of one to four tokens
TargetSamples ==
  {<<"p", "o", "s", "t", "s">>, <<"p", "o", "s", "t", "s", " ", "p">>, <<"p", "o", "s", "t", "s", " ", "A", "S", " ", "p">>, <<"p", "o", "s", "t", "s", " ", "a", "s", " ", "p">>, <<" ", " ", "p", "o", "s", "t", "s", " ", "\t", " ", "p", " ">>, <<"d", "b", ".", "p", "o", "s", "t", "s", " ", "p">>,
   <<"p", "o", "s", "t", "s", " ", "A", "S", " ", "p", " ", "x">>, <<"p", "o", "s", "t", "s", " ", "J", "O", "I", "N", " ", "p">>, <<>>, <<"b", "a", "d", "-", "n", "a", "m", "e">>, <<"p", "o", "s", "t", "s", " ", "b", "a", "d", "-", "n", "a", "m", "e">>, <<"p", "o", "s", "t", "s", " ", "A", "S", " ", "1", "p">>,
   <<"p", "o", "s", "t", "s", " ", "A", "S">>}

JoinFocus ==
  {Descriptor(TableUsers, <<>>, <<>>, <<>>, <<>>, JsNull, JsNull, <<Join(t, o, <<"i", "n", "n", "e", "r">>)>>, <<>>) :
     t \in TargetSamples, o \in OnSamples}

FragmentDescriptors ==
  {Descriptor(TableUsers, <<>>, w, <<>>, <<>>, JsNull, JsNull, <<>>, <<>>) : w \in FilterSamples}
    \cup JoinFocus

FrInit ==
  /\ descriptor \in FragmentDescriptors
  /\ payload = DefaultPayload
  /\ translated = NotTranslated

\* translateCondition of the statement translator on the descriptor's one condition
TranslateCondition ==
  /\ translated.op = "none"
  /\ Len(descriptor.whereConditions) = 1
  /\ "field" \in DOMAIN descriptor.whereConditions[1]
  /\ translated' = [op |-> "condition", result |-> translateCondition(descriptor.whereConditions[1])]
  /\ UNCHANGED <<descriptor, payload, qbVars, adVars, modules>>

\* build_where_clause on the descriptor's conditions as its filters
BuildWhereClause ==
  /\ translated.op = "none"
  /\ translated' = [op |-> "filters", result |-> buildWhereClauseOfFilters(descriptor.whereConditions)]
  /\ UNCHANGED <<descriptor, payload, qbVars, adVars, modules>>

\* quote_identifier on the field name of the descriptor's one condition
QuoteIdentifier ==
  /\ translated.op = "none"
  /\ Len(descriptor.whereConditions) = 1
  /\ translated' = [op |-> "quote", result |-> quoteIdentifier(FieldName(descriptor.whereConditions[1]))]
  /\ UNCHANGED <<descriptor, payload, qbVars, adVars, modules>>

\* buildJoinClauses on the descriptor's joins
BuildJoinClauses ==
  /\ translated.op = "none"
  /\ descriptor.joins # <<>>
  /\ translated' = [op |-> "joins", result |-> buildJoinClauses(descriptor.joins)]
  /\ UNCHANGED <<descriptor, payload, qbVars, adVars, modules>>

FrNext == TranslateCondition \/ BuildWhereClause \/ QuoteIdentifier \/ BuildJoinClauses

InitFragments == FrInit /\ QbIdle /\ AdIdle /\ MdIdle
SpecFragments == InitFragments /\ [][FrNext]_vars


InitModules == MdInit /\ TrIdle /\ QbIdle /\ AdIdle
SpecModules == InitModules /\ [][MdNext]_vars

\* the calls an application makes that never registers or clears an adapter itself
SgNext ==
  \/ \E path \in EnvSamples : SetEnv(path)
  \/ \E type \in {"sqlite", "postgrest"}, enable_admin_ui \in BOOLEAN :
       CreateHazoConnect(type, Path(TRUE, <<"tmp", "app.db">>), enable_admin_ui)
  \/ \E options \in OptionSamples : getHazoConnectSingleton(options)
  \/ resetHazoConnectSingleton
  \/ getSqliteAdapter

SpecSingleton == InitModules /\ [][SgNext]_vars
----------------------------------------------------------------------------
(* Properties of the translator                                             *)

\* the ? placeholders of a statement: the question marks outside '...' and "...".
\* Scan reads sql[lo..hi] entering in quote state quote ("" outside any quote) and gives the
\* placeholders counted and the quote state left in
RECURSIVE Scan(_, _, _, _)
Scan(sql, lo, hi, quote) ==
  LET One(char) ==
        IF quote # "" THEN [n |-> 0, quote |-> IF char = quote THEN "" ELSE quote]
        ELSE IF char \in {"'", "\""} THEN [n |-> 0, quote |-> char]
        ELSE [n |-> IF char = "?" THEN 1 ELSE 0, quote |-> quote]
      Plus(n, right) == [n |-> n + right.n, quote |-> right.quote]
      Halves(mid) ==
        LET After(left) == Plus(left.n, Scan(sql, mid + 1, hi, left.quote))
        IN  After(Scan(sql, lo, mid, quote))
  IN  IF lo > hi THEN [n |-> 0, quote |-> quote]
      ELSE IF lo = hi THEN One(sql[lo])
      ELSE Halves((lo + hi) \div 2)
PlaceholderCount(sql) == Scan(sql, 1, Len(sql), "").n

\* C9: every statement the translator produces has as many ? placeholders as params
PlaceholdersMatchParams ==
  \A i \in 1..Len(Statements) :
    PlaceholderCount(Statements[i].sql) = Len(Statements[i].params)

\* C9 for the statements whose select list holds no question mark: the count is that of
\* the params, which are the SET values in payload order and then those of the conditions
\* in insertion order, the flat ones before the OR-groups
ConditionValues(condition) ==
  IF condition.operator = "in"
  THEN [i \in 1..Len(condition.value[2]) |-> normalizeValue(condition.value[2][i])]
  ELSE IF condition.operator = "is" THEN <<>>
  ELSE IF condition.operator \in {"eq", "neq"} /\ condition.value[1] \in {"null", "undef"}
  THEN <<>>
  ELSE IF condition.operator \in {"like", "ilike"}
  THEN <<JsStr(ToStringJs(normalizeValue(condition.value)))>>
  ELSE <<normalizeValue(condition.value)>>
WhereValues ==
  Concat([i \in 1..Len(descriptor.whereConditions) |->
            ConditionValues(descriptor.whereConditions[i])])
  \o Concat([g \in 1..Len(descriptor.whereOrConditions) |->
               Concat([i \in 1..Len(descriptor.whereOrConditions[g]) |->
                         ConditionValues(descriptor.whereOrConditions[g][i])])])
ParamsInOrder ==
  /\ (\A f \in 1..Len(descriptor.selectFields) : ~Contains(descriptor.selectFields[f], "?"))
       => PlaceholdersMatchParams
  /\ translated.result.ok /\ translated.op \in {"select", "delete"}
       => translated.result.v.params = WhereValues
  /\ translated.result.ok /\ translated.op = "update"
       => translated.result.v.params
            = [c \in 1..Len(payload[2]) |-> normalizeValue(payload[2][c].val)] \o WhereValues

\* C10: the inserts in question have one or more rows, plain objects over one
\* set of valid, unqualified column names, for a named table
InsertRows == IF payload[1] = "arr" THEN payload[2] ELSE <<payload>>
SharedColumns ==
  /\ descriptor.table = TableUsers
  /\ Len(InsertRows) >= 1
  /\ Len(ObjectKeys(InsertRows[1])) >= 1
  /\ \A c \in 1..Len(ObjectKeys(InsertRows[1])) :
       identifierPattern(ObjectKeys(InsertRows[1])[c])
  /\ \A i \in 1..Len(InsertRows) :
       /\ Len(ObjectKeys(InsertRows[i])) = Len(ObjectKeys(InsertRows[1]))
       /\ Range(ObjectKeys(InsertRows[i])) = Range(ObjectKeys(InsertRows[1]))

\* INSERT INTO <table> (<cols>) VALUES (?, ...) RETURNING *, names in double quotes
InsertSql(table, columns) ==
  <<"I", "N", "S", "E", "R", "T", " ", "I", "N", "T", "O", " ", "\"">> \o table \o <<"\"", " ", "(">>
    \o JoinWith([c \in 1..Len(columns) |-> <<"\"">> \o columns[c] \o <<"\"">>], <<",", " ">>)
    \o <<")", " ", "V", "A", "L", "U", "E", "S", " ", "(">> \o JoinWith([c \in 1..Len(columns) |-> <<"?">>], <<",", " ">>)
    \o <<")", " ", "R", "E", "T", "U", "R", "N", "I", "N", "G", " ", "*">>

\* C10: translateInsert on n rows that share one column set yields n statements in row
\* order, all with the one INSERT ... RETURNING * text over the first row's columns, and
\* statement i carries row i's normalized values in the first row's column order
InsertPerRow ==
  translated.op = "insert" /\ SharedColumns =>
    /\ translated.result.ok
    /\ Len(Statements) = Len(InsertRows)
    /\ \A i \in 1..Len(InsertRows) :
         /\ Statements[i].sql = InsertSql(descriptor.table[2], ObjectKeys(InsertRows[1]))
         /\ Statements[i].params =
              [c \in 1..Len(ObjectKeys(InsertRows[1])) |->
                 normalizeValue(Prop(InsertRows[i], ObjectKeys(InsertRows[1])[c]))]

\* C10 is reached: two rows inserted that list the same columns in different orders and
\* hold different values
InsertRowsReordered ==
  /\ translated.op = "insert" /\ SharedColumns
  /\ Len(InsertRows) = 2
  /\ ObjectKeys(InsertRows[1]) # ObjectKeys(InsertRows[2])
  /\ Statements[1].params # Statements[2].params
  /\ Statements[2].params # [c \in 1..Len(InsertRows[2][2]) |->
                               normalizeValue(InsertRows[2][2][c].val)]

----------------------------------------------------------------------------
(* Properties of the QueryBuilder                                           *)

Setters == {"from", "select", "where", "whereIn", "whereOr", "order", "limit", "offset",
            "join", "nestedSelect"}
\* the step is a call of a setter on builder b
SetterCall(b) ==
  /\ builderCalls' = builderCalls + 1
  /\ lastCall'.target = b
  /\ lastCall'.name \in Setters

\* C7: once c = d.clone() exists, a setter call on d leaves what every accessor of c
\* returns unchanged, and a setter call on c leaves every accessor of d unchanged
CloneIndependent ==
  [][Live("c") =>
       /\ SetterCall("d") => Accessors("c")' = Accessors("c")
       /\ SetterCall("c") => Accessors("d")' = Accessors("d")]_vars

\* C7 is reached: after the clone a setter has pushed onto an array of d that the clone
\* had copied with entries in it, and the two builders now differ
SetterAfterClone ==
  /\ Live("c")
  /\ lastCall.target = "d" /\ lastCall.name \in {"where", "whereIn"}
  /\ Len(getWhereConditions("c")) >= 1
  /\ Len(getWhereConditions("d")) > Len(getWhereConditions("c"))

\* C8: a clone and its original share no array, OR-group or entry object, so that a change
\* made to an entry obtained from one builder's accessors does not show through the other's
CloneSharesNothing ==
  /\ Live("c") => Reachable("d") \cap Reachable("c") = {}
  /\ Live("c") /\ lastCall.name = "setEntryValue" /\ lastCall.target = "d"
       => \A i \in 1..Len(getWhereConditions("c")) :
            getWhereConditions("c")[i].value # JsNum(99)

----------------------------------------------------------------------------
(* Properties of the SQLite adapter                                         *)

WriteVerbs == {<<"P", "O", "S", "T">>, <<"P", "U", "T">>, <<"P", "A", "T", "C", "H">>, <<"D", "E", "L", "E", "T", "E">>}
MutatingKeywords ==
  {<<"I", "N", "S", "E", "R", "T">>, <<"U", "P", "D", "A", "T", "E">>, <<"D", "E", "L", "E", "T", "E">>, <<"R", "E", "P", "L", "A", "C", "E">>, <<"C", "R", "E", "A", "T", "E">>, <<"D", "R", "O", "P">>, <<"A", "L", "T", "E", "R">>}
FirstKeyword(sql) == ToUpper(SplitSpaces(Trim(sql))[1])

\* the query requests that carry one of the four writing verbs, and the raw requests whose
\* first keyword is one of the seven
WritingRequests ==
  {name \in DOMAIN QueryRequests : ToUpper(QueryRequests[name].method) \in WriteVerbs}
KeywordRequests ==
  {name \in DOMAIN RawRequests : FirstKeyword(RawRequests[name].sql) \in MutatingKeywords}
\* call c is a query() call with a writing verb; a rawQuery() call with such a keyword
WritingQuery(c) == c.api = "query" /\ c.request \in WritingRequests
KeywordRaw(c) == c.api = "rawQuery" /\ c.request \in KeywordRequests
\* the step is one of call i
StepOf(i) == calls'[i] # calls[i]

\* the adapter was constructed read-only over a database file that exists
ReadOnlyOverFile == config.read_only /\ config.database_path.given /\ disk.exists

\* C1: on a read-only adapter over an existing file, a query() call with verb POST, PUT,
\* PATCH or DELETE is rejected at once with a CONFIG_ERROR whose message contains
\* "read-only", has run no statement, and no step of it changes the engine's data or
\* the file
ReadOnlyRejectsWrites ==
  [][\A i \in 1..MaxCalls :
       ReadOnlyOverFile /\ StepOf(i) /\ WritingQuery(calls'[i]) =>
         /\ calls[i].pc = "idle" /\ calls'[i].pc = "rejected"
         /\ calls'[i].error.code = "CONFIG_ERROR"
         /\ Includes(calls'[i].error.message, <<"r", "e", "a", "d", "-", "o", "n", "l", "y">>)
         /\ calls'[i].executed = 0
         /\ db' = db /\ disk' = disk /\ fileWrites' = fileWrites]_vars

\* C1 is reached: the file has been loaded and a POST and a DELETE have been rejected
WriteRejectedReadOnly ==
  /\ ReadOnlyOverFile /\ init.pc = "ready" /\ db = ExistingFile /\ disk = ExistingFile
  /\ calls[1].request = "postRows" /\ calls[2].request = "delete"
  /\ \A i \in 1..2 :
       calls[i].api = "query" /\ calls[i].pc = "rejected"
       /\ calls[i].error.site = "read-only"

\* C2: no step of a rawQuery call on a read-only adapter changes the engine's data
ReadOnlyRawKeepsData ==
  [][\A i \in 1..MaxCalls :
       config.read_only /\ StepOf(i) /\ calls'[i].api = "rawQuery" => db' = db]_vars

\* the body of a POST is no plain object and no non-empty array of plain objects; the body
\* of a PUT or PATCH is no plain object with at least one key
InvalidPayload(request) ==
  LET body == request.body
  IN  \/ /\ ToUpper(request.method) = <<"P", "O", "S", "T">>
         /\ ~isPlainObject(body)
         /\ ~(body[1] = "arr" /\ body[2] # <<>>
              /\ \A k \in 1..Len(body[2]) : isPlainObject(body[2][k]))
      \/ /\ ToUpper(request.method) \in {<<"P", "U", "T">>, <<"P", "A", "T", "C", "H">>}
         /\ ~(isPlainObject(body) /\ ObjectKeys(body) # <<>>)
\* the descriptor names no table
InvalidDescriptor(request) == request.builder.table = JsNull
AbortSites == {"payload", "translation"}

\* C3: a query() call with an invalid payload or descriptor (on an adapter that does not
\* turn it away as read-only) is rejected at once with a CONFIG_ERROR; a call that fails
\* with a payload or translation error fails in its first step, has executed no statement
\* and written no snapshot, leaves the engine's data and the file as they were, and takes
\* no further step
QueryAbortsBeforeEngine ==
  [][\A i \in 1..MaxCalls :
       StepOf(i) /\ calls'[i].api = "query" =>
         /\ calls[i].pc # "rejected"
         /\ (/\ calls[i].pc = "idle"
             /\ \/ InvalidPayload(QueryRequests[calls'[i].request])
                \/ InvalidDescriptor(QueryRequests[calls'[i].request])
             /\ ~(config.read_only /\ WritingQuery(calls'[i])))
              => calls'[i].pc = "rejected" /\ calls'[i].error.site \in AbortSites
         /\ calls'[i].error.site \in AbortSites =>
              /\ calls[i].pc = "idle" /\ calls'[i].pc = "rejected"
              /\ calls'[i].error.code = "CONFIG_ERROR"
              /\ calls'[i].executed = 0 /\ calls'[i].persisted = "none"
              /\ calls'[i].snap = Nothing
              /\ db' = db /\ disk' = disk /\ fileWrites' = fileWrites]_vars

\* C3 is reached: on a writable adapter whose engine holds data, a POST has failed on its
\* payload and a GET on its descriptor, and the data and the file are untouched
QueryAbortedBeforeEngine ==
  /\ ~config.read_only /\ init.pc = "ready" /\ init.loaded
  /\ db = ExistingFile /\ disk = ExistingFile /\ fileWrites = 0
  /\ calls[1].request = "postNotObject" /\ calls[1].error.site = "payload"
  /\ calls[2].request = "getNoTable" /\ calls[2].error.site = "translation"

\* call c is one that the adapter is to persist
Mutating(c) == WritingQuery(c) \/ KeywordRaw(c)
\* the adapter is writable and was given a database file
FileBacked ==
  /\ ~config.read_only
  /\ config.database_path.given /\ config.database_path # MemorySentinel
\* the database file sits directly in a directory directly under the root
TopLevelFile == databasePath.abs /\ Len(databasePath.segs) = 2

NoSnapshotFile ==
  (\/ config.database_path = MemorySentinel
   \/ ~config.database_path.given
   \/ config.read_only) => fileWrites = 0

\* the seed statements the adapter was given, the empty ones left out
Seeds == SelectSeq(config.initial_sql, LAMBDA statement : statement # <<>>)
Initialised == init.pc \in {"ready", "failed"}
\* the adapter was given a database file, which did not exist when it was initialised
FileMissing == Initialised /\ config.database_path.given /\ ~init.loaded

----------------------------------------------------------------------------
(* Further properties of the translator                                     *)

\* the column names of row i of the insert payload, as a set
RowColumns(i) == Range(ObjectKeys(InsertRows[i]))
\* the row array is empty, a row's column set differs from the first row's, or a column
\* name holds a '.'
InsertRefused ==
  \/ InsertRows = <<>>
  \/ \E i \in 1..Len(InsertRows) : RowColumns(i) # RowColumns(1)
  \/ \E i \in 1..Len(InsertRows) : \E name \in RowColumns(i) : Contains(name, ".")

\* C11: translateInsert throws, and so yields no statement, when the row array is empty,
\* when a row's set of column names differs from the first row's, or when a column name
\* holds a '.'; rows over one set of valid column names are accepted for a named table in
\* whatever order each row lists them
InsertRejectsUnequalRows ==
  translated.op = "insert" =>
    /\ InsertRefused => ~translated.result.ok /\ Statements = <<>>
    /\ SharedColumns => translated.result.ok /\ Len(Statements) = Len(InsertRows)

\* C11 is reached: an insert of two rows for a named table, the first over column a and
\* the second over column b, has been refused
InsertRefusedOtherColumn ==
  /\ translated.op = "insert" /\ descriptor.table = TableUsers
  /\ Len(InsertRows) = 2
  /\ RowColumns(1) = {<<"a">>} /\ RowColumns(2) = {<<"b">>}
  /\ ~translated.result.ok

----------------------------------------------------------------------------
(* Properties of the compiled fragments                                     *)

\* one condition has been compiled, by the statement translator or by build_where_clause
FragmentMade == translated.op \in {"condition", "filters"} /\ Len(descriptor.whereConditions) = 1
TheCondition == descriptor.whereConditions[1]
\* F: the condition's field as each of the two quotes it
QuotedField ==
  IF translated.op = "condition" THEN quoteQualifiedIdentifier(FieldName(TheCondition))
  ELSE quoteIdentifier(FieldName(TheCondition))
\* the call returned this fragment (behind ' WHERE ' from build_where_clause) and params
Compiles(fragment, params) ==
  /\ translated.result.ok
  /\ translated.result.v.clause = (IF translated.op = "filters" THEN <<" ", "W", "H", "E", "R", "E", " ">> ELSE <<>>) \o fragment
  /\ translated.result.v.params = params

\* a value as the spec has it bound: undefined as null, a boolean as 1 or 0, a date as
\* its ISO-8601 text, anything else as it is
Bound(value) ==
  IF value = JsUndef THEN JsNull
  ELSE IF value \in {JsBool(TRUE), JsBool(FALSE)} THEN JsNum(IF value[2] THEN 1 ELSE 0)
  ELSE IF value[1] = "date" THEN JsStr(value[2])
  ELSE value

\* n placeholders: ?, ?, ..., ?
RECURSIVE QuestionMarks(_)
QuestionMarks(n) == IF n = 1 THEN <<"?">> ELSE <<"?", ",", " ">> \o QuestionMarks(n - 1)

\* the values of operator in: the array, or the one value that is not an array
InValues == IF TheCondition.value[1] = "arr" THEN TheCondition.value[2] ELSE <<TheCondition.value>>

\* C12: operator in with an empty array compiles to 1=0 with no params, with n values to
\* F IN (?, ..., ?) of n placeholders and the n normalized values in order as params; a
\* value that is not an array counts as an array of that one value
InCompiled ==
  FragmentMade /\ TheCondition.operator = "in" /\ QuotedField.ok =>
    IF InValues = <<>> THEN Compiles(<<"1", "=", "0">>, <<>>)
    ELSE Compiles(QuotedField.v \o <<" ", "I", "N", " ", "(">> \o QuestionMarks(Len(InValues)) \o <<")">>,
                  [i \in 1..Len(InValues) |-> Bound(InValues[i])])

\* C12 is reached: the translator has compiled name in [1, true] to two placeholders
\* with the params 1 and 1
InOfTwoCompiled ==
  /\ translated.op = "condition"
  /\ TheCondition = Cond(<<"n", "a", "m", "e">>, "in", JsArr(<<JsNum(1), JsBool(TRUE)>>))
  /\ translated.result.ok
  /\ translated.result.v = Clause(<<"\"", "n", "a", "m", "e", "\"", " ", "I", "N", " ", "(", "?", ",", " ", "?", ")">>, <<JsNum(1), JsNum(1)>>)

\* C13: eq and neq with null or undefined compile to F IS NULL and F IS NOT NULL with no
\* params, and with any other value to F = ? and F != ? with the normalized value as the
\* one param
EqualityCompiled ==
  FragmentMade /\ TheCondition.operator \in {"eq", "neq"} /\ QuotedField.ok =>
    LET isEq == TheCondition.operator = "eq"
    IN  IF TheCondition.value \in {JsNull, JsUndef}
        THEN Compiles(QuotedField.v \o (IF isEq THEN <<" ", "I", "S", " ", "N", "U", "L", "L">> ELSE <<" ", "I", "S", " ", "N", "O", "T", " ", "N", "U", "L", "L">>), <<>>)
        ELSE Compiles(QuotedField.v \o (IF isEq THEN <<" ", "=", " ", "?">> ELSE <<" ", "!", "=", " ", "?">>),
                      <<Bound(TheCondition.value)>>)

\* C13 is reached: build_where_clause has compiled t.name neq false to != ? with the
\* param 0
NeqFalseCompiled ==
  /\ translated.op = "filters" /\ FragmentMade
  /\ TheCondition = Cond(<<"t", ".", "n", "a", "m", "e">>, "neq", JsBool(FALSE))
  /\ translated.result.ok
  /\ translated.result.v = Clause(<<" ", "W", "H", "E", "R", "E", " ", "\"", "t", "\"", ".", "\"", "n", "a", "m", "e", "\"", " ", "!", "=", " ", "?">>, <<JsNum(0)>>)

SupportedOperators == {"eq", "neq", "gt", "gte", "lt", "lte", "like", "ilike", "is", "in"}
\* the value of the condition lower-cased as a string, null and undefined read as 'null'
Lowered(text) == [i \in 1..Len(text) |-> ToLowerChar(text[i])]
LowerCasedValue ==
  Lowered(IF TheCondition.value \in {JsNull, JsUndef} THEN <<"n", "u", "l", "l">> ELSE ToStringJs(TheCondition.value))

\* C14: with a valid field name, compiling one condition fails exactly when the operator
\* is none of the ten (or is none of them) or it is 'is' with a value that, lower-cased
\* as a string, is none of null, not.null, not null; 'is' compiles to F IS NULL for null
\* and to F IS NOT NULL for not.null and not null, without params; the statement
\* translator and build_where_clause agree on this
ConditionFailsAsStated ==
  FragmentMade /\ QuotedField.ok =>
    /\ ~translated.result.ok <=>
         \/ TheCondition.operator \notin SupportedOperators
         \/ /\ TheCondition.operator = "is"
            /\ LowerCasedValue \notin {<<"n", "u", "l", "l">>, <<"n", "o", "t", ".", "n", "u", "l", "l">>, <<"n", "o", "t", " ", "n", "u", "l", "l">>}
    /\ TheCondition.operator = "is" /\ LowerCasedValue = <<"n", "u", "l", "l">> =>
         Compiles(QuotedField.v \o <<" ", "I", "S", " ", "N", "U", "L", "L">>, <<>>)
    /\ TheCondition.operator = "is" /\ LowerCasedValue \in {<<"n", "o", "t", ".", "n", "u", "l", "l">>, <<"n", "o", "t", " ", "n", "u", "l", "l">>} =>
         Compiles(QuotedField.v \o <<" ", "I", "S", " ", "N", "O", "T", " ", "N", "U", "L", "L">>, <<>>)

\* C14 is reached: build_where_clause has refused name is not_null
IsValueRefused ==
  /\ translated.op = "filters" /\ FragmentMade
  /\ TheCondition = Cond(<<"n", "a", "m", "e">>, "is", JsStr(<<"n", "o", "t", "_", "n", "u", "l", "l">>))
  /\ ~translated.result.ok

\* the identifier handed to quote_identifier and its segments between the dots
TheIdentifier == FieldName(TheCondition)
Segments == SplitChar(TheIdentifier, ".")
\* ^[A-Za-z_][A-Za-z0-9_]*$
NameStart == {UpperChars[i] : i \in 1..Len(UpperChars)} \cup {LowerChars[i] : i \in 1..Len(LowerChars)} \cup {"_"}
NameChar == NameStart \cup {DigitChars[i] : i \in 1..Len(DigitChars)}
IsName(segment) ==
  /\ segment # <<>>
  /\ segment[1] \in NameStart
  /\ \A i \in 2..Len(segment) : segment[i] \in NameChar

\* C16: quote_identifier returns exactly when every segment of the identifier between
\* dots is a name (a letter or underscore, then letters, digits and underscores), and
\* then returns the identifier with every segment in double quotes, that is with a quote
\* at each end and "." for every dot; it throws for every other text, the empty one,
\* one with an empty segment and bad-name included
IdentifierQuoted ==
  translated.op = "quote" =>
    /\ translated.result.ok <=> \A i \in 1..Len(Segments) : IsName(Segments[i])
    /\ translated.result.ok =>
         translated.result.v
           = <<"\"">> \o Concat([i \in 1..Len(TheIdentifier) |->
                                 IF TheIdentifier[i] = "." THEN <<"\"", ".", "\"">> ELSE <<TheIdentifier[i]>>])
                   \o <<"\"">>
    /\ TheIdentifier \in {<<>>, <<"a", ".">>, <<"a", ".", ".">>, <<".", "a">>, <<"1", "a">>, <<"b", "a", "d", "-", "n", "a", "m", "e">>} => ~translated.result.ok

\* C16 is reached: a.B has been quoted as "a"."B"
QualifiedQuoted ==
  /\ translated.op = "quote"
  /\ TheIdentifier = <<"a", ".", "B">>
  /\ translated.result = Ok(<<"\"", "a", "\"", ".", "\"", "B", "\"">>)

\* a name of one or more segments between dots, each a valid identifier
IsQualifiedName(text) ==
  \A i \in 1..Len(SplitChar(text, ".")) : IsName(SplitChar(text, ".")[i])
\* every segment in double quotes
QuotedName(text) ==
  <<"\"">> \o Concat([i \in 1..Len(text) |-> IF text[i] = "." THEN <<"\"", ".", "\"">> ELSE <<text[i]>>]) \o <<"\"">>

\* the join compiled and the sides of its condition around '=', the tokens of its target
TheJoin == descriptor.joins[1]
OnSides == [i \in 1..Len(SplitChar(TheJoin.on, "=")) |-> Trim(SplitChar(TheJoin.on, "=")[i])]
TargetTokens == SplitSpaces(Trim(TheJoin.table))
\* a single equality of two qualified names
OnAccepted == Len(OnSides) = 2 /\ IsQualifiedName(OnSides[1]) /\ IsQualifiedName(OnSides[2])
\* table, table alias or table AS alias
TargetAccepted ==
  /\ \/ Len(TargetTokens) \in {1, 2}
     \/ Len(TargetTokens) = 3 /\ Lowered(TargetTokens[2]) = <<"a", "s">>
  /\ IsQualifiedName(TargetTokens[1]) /\ IsQualifiedName(TargetTokens[Len(TargetTokens)])

\* C19: a join is compiled exactly when its on condition is a single equality, one '='
\* with a qualified name of valid segments on each side, and its target is table, table
\* alias or table AS alias; the condition is then emitted with every segment in double
\* quotes, the target as the quoted table, with AS and the quoted alias if there is one;
\* every other condition or target is a translation error
JoinAcceptedAsStated ==
  translated.op = "joins" =>
    /\ translated.result.ok <=> OnAccepted /\ TargetAccepted
    /\ ~translated.result.ok => translated.result.err = "SqliteTranslationError"
    /\ translated.result.ok =>
         translated.result.v
           = <<" ", "I", "N", "N", "E", "R", " ", "J", "O", "I", "N", " ">>
               \o QuotedName(TargetTokens[1])
               \o (IF Len(TargetTokens) = 1 THEN <<>> ELSE <<" ", "A", "S", " ">> \o QuotedName(TargetTokens[Len(TargetTokens)]))
               \o <<" ", "O", "N", " ">> \o QuotedName(OnSides[1]) \o <<" ", "=", " ">> \o QuotedName(OnSides[2])

\* C19 is reached: a join of posts as p on a.id=b.id has been compiled, the text
\* written out
JoinCompiled ==
  /\ translated.op = "joins"
  /\ TheJoin = Join(<<"p", "o", "s", "t", "s", " ", "a", "s", " ", "p">>, <<"a", ".", "i", "d", "=", "b", ".", "i", "d">>, <<"i", "n", "n", "e", "r">>)
  /\ translated.result = Ok(<<" ", "I", "N", "N", "E", "R", " ", "J", "O", "I", "N", " ", "\"", "p", "o", "s", "t", "s", "\"", " ", "A", "S", " ", "\"", "p", "\"", " ", "O", "N", " ", "\"", "a", "\"", ".", "\"", "i", "d", "\"", " ", "=", " ", "\"", "b", "\"", ".", "\"", "i", "d", "\"">>)

----------------------------------------------------------------------------
(* Properties of the statements                                             *)

\* the fragment of one condition
Fragment(condition) == translateCondition(condition).v.clause
\* the term of one OR-group: its fragments joined by OR, each in parentheses when there
\* are several, the whole in parentheses
GroupTerm(group) ==
  <<"(">> \o (IF Len(group) = 1 THEN Fragment(group[1])
           ELSE JoinWith([i \in 1..Len(group) |-> <<"(">> \o Fragment(group[i]) \o <<")">>], <<" ", "O", "R", " ">>))
        \o <<")">>
NonEmptyGroups == SelectSeq(descriptor.whereOrConditions, LAMBDA group : group # <<>>)
WhereTerms ==
  [i \in 1..Len(descriptor.whereConditions) |-> Fragment(descriptor.whereConditions[i])]
    \o [g \in 1..Len(NonEmptyGroups) |-> GroupTerm(NonEmptyGroups[g])]
WhereAsStated == IF WhereTerms = <<>> THEN <<>> ELSE <<" ", "W", "H", "E", "R", "E", " ">> \o JoinWith(WhereTerms, <<" ", "A", "N", "D", " ">>)

\* C15: the WHERE clause of a statement is empty when there is no flat condition and no
\* non-empty OR-group, and otherwise ' WHERE ' and, joined by ' AND ', the flat fragments
\* in insertion order and then one parenthesized term per non-empty OR-group in
\* insertion order, a group's fragments joined by ' OR ' and each in parentheses only
\* when the group has several; seen in the DELETE statement, which appends the clause
\* to the table, and in a SELECT with no other clause, whose parts are joined by a space
WhereAssembled ==
  translated.result.ok /\ descriptor.table = TableUsers =>
    /\ translated.op = "delete" =>
         translated.result.v.sql = <<"D", "E", "L", "E", "T", "E", " ", "F", "R", "O", "M", " ", "\"", "u", "s", "e", "r", "s", "\"">> \o WhereAsStated \o <<" ", "R", "E", "T", "U", "R", "N", "I", "N", "G", " ", "*">>
    /\ /\ translated.op = "select"
       /\ descriptor.selectFields = <<>> /\ descriptor.joins = <<>> /\ descriptor.orderBy = <<>>
       /\ descriptor.limitValue = JsNull /\ descriptor.offsetValue = JsNull
       => translated.result.v.sql
            = <<"S", "E", "L", "E", "C", "T", " ", "*", " ", "F", "R", "O", "M", " ", "\"", "u", "s", "e", "r", "s", "\"">> \o (IF WhereAsStated = <<>> THEN <<>> ELSE <<" ">> \o WhereAsStated)

\* C15 is reached: a DELETE has been translated for one flat condition and three
\* OR-groups of one, no and two fragments
WhereOfGroupsAssembled ==
  /\ translated.op = "delete" /\ translated.result.ok
  /\ descriptor = GroupsSample
  /\ translated.result.v.sql =
       <<"D", "E", "L", "E", "T", "E", " ", "F", "R", "O", "M", " ", "\"", "u", "s", "e", "r", "s", "\"", " ", "W", "H", "E", "R", "E", " ", "\"", "i", "d", "\"", " ", "=", " ", "?", " ", "A", "N", "D", " ", "(", "\"", "a", "g", "e", "\"", " ", "<", "=", " ", "?", ")", " ", "A", "N", "D", " ", "(", "(", "L", "O", "W", "E", "R", "(", "\"", "n", "a", "m", "e", "\"", ")", " ", "L", "I", "K", "E", " ", "L", "O", "W", "E", "R", "(", "?", ")", ")", " ", "O", "R", " ", "(", "\"", "a", "g", "e", "\"", " ", "I", "S", " ", "N", "U", "L", "L", ")", ")", " ", "R", "E", "T", "U", "R", "N", "I", "N", "G", " ", "*">>

\* the join clause of join j of the descriptor: keyword, target, ON, condition
JoinKeyword(type) == IF Lowered(type) = <<"i", "n", "n", "e", "r">> THEN <<"I", "N", "N", "E", "R", " ", "J", "O", "I", "N">> ELSE <<"L", "E", "F", "T", " ", "J", "O", "I", "N">>
JoinAsStated(j) ==
  JoinKeyword(descriptor.joins[j].type) \o <<" ">> \o quoteJoinTarget(descriptor.joins[j].table).v
    \o <<" ", "O", "N", " ">> \o sanitizeJoinCondition(descriptor.joins[j].on).v
\* a select of every column with nothing but joins and conditions, all joins inner or
\* left over a target and a condition that are accepted
PlainJoinedSelect ==
  /\ descriptor.table = TableUsers /\ descriptor.selectFields = <<>> /\ descriptor.nestedSelects = <<>>
  /\ descriptor.orderBy = <<>> /\ descriptor.limitValue = JsNull /\ descriptor.offsetValue = JsNull
  /\ descriptor.joins # <<>>
  /\ \A j \in 1..Len(descriptor.joins) :
       /\ Lowered(descriptor.joins[j].type) \in {<<"i", "n", "n", "e", "r">>, <<"l", "e", "f", "t">>}
       /\ quoteJoinTarget(descriptor.joins[j].table).ok
       /\ sanitizeJoinCondition(descriptor.joins[j].on).ok
  /\ buildWhereClause(descriptor).ok

\* C18: translateSelect throws a translation error when a join has type right, in any
\* case; otherwise a join of type inner gives INNER JOIN and one of type left LEFT JOIN,
\* one clause per join in the order of the joins, after FROM and the table and before
\* WHERE
JoinsEmitted ==
  translated.op = "select" =>
    /\ (\E j \in 1..Len(descriptor.joins) : Lowered(descriptor.joins[j].type) = <<"r", "i", "g", "h", "t">>)
         => ~translated.result.ok /\ translated.result.err = "SqliteTranslationError"
    /\ PlainJoinedSelect =>
         /\ translated.result.ok
         /\ translated.result.v.sql
              = <<"S", "E", "L", "E", "C", "T", " ", "*", " ", "F", "R", "O", "M", " ", "\"", "u", "s", "e", "r", "s", "\"", " ", " ">>
                  \o JoinWith([j \in 1..Len(descriptor.joins) |-> JoinAsStated(j)], <<" ">>)
                  \o (IF WhereAsStated = <<>> THEN <<>> ELSE <<" ">> \o WhereAsStated)

\* C18 is reached: a select with a join of type Left and one of type inner and a
\* condition has been translated
JoinsBeforeWhere ==
  /\ translated.op = "select"
  /\ descriptor = JoinedSample
  /\ translated.result.ok
  /\ translated.result.v.sql =
       <<"S", "E", "L", "E", "C", "T", " ", "*", " ", "F", "R", "O", "M", " ", "\"", "u", "s", "e", "r", "s", "\"", " ", " ", "L", "E", "F", "T", " ", "J", "O", "I", "N", " ", "\"", "p", "o", "s", "t", "s", "\"", " ", "A", "S", " ", "\"", "p", "\"", " ", "O", "N", " ", "\"", "p", "\"", ".", "\"", "u", "s", "e", "r", "_", "i", "d", "\"", " ", "=", " ", "\"", "u", "s", "e", "r", "s", "\"", ".", "\"", "i", "d", "\"", " ", "I", "N", "N", "E", "R", " ", "J", "O", "I", "N", " ", "\"", "t", "a", "g", "s", "\"", " ", "O", "N", " ", "\"", "t", "a", "g", "s", "\"", ".", "\"", "i", "d", "\"", " ", "=", " ", "\"", "p", "\"", ".", "\"", "t", "a", "g", "_", "i", "d", "\"", " ", " ", "W", "H", "E", "R", "E", " ", "\"", "i", "d", "\"", " ", "=", " ", "?">>

\* the columns of the update payload in key order
UpdateColumns == ObjectKeys(payload)

\* C20: translateUpdate throws when the payload has no column, and the adapter rejects a
\* PUT or PATCH with such a payload in its first step, with no statement to run;
\* otherwise, for a named table, valid column names and conditions that compile, it
\* returns one statement UPDATE <table> SET c1 = ?, c2 = ? ... <where> RETURNING * with
\* the columns in payload key order, its params the payload's values in that order and
\* then those of the conditions
UpdateAsStated ==
  translated.op = "update" =>
    /\ UpdateColumns = <<>> =>
         /\ ~translated.result.ok /\ translated.result.err = "SqliteTranslationError"
         /\ \A method \in {<<"P", "U", "T">>, <<"P", "A", "T", "C", "H">>} :
              /\ query(descriptor, method, payload).pc = "rejected"
              /\ query(descriptor, method, payload).error.code = "CONFIG_ERROR"
              /\ query(descriptor, method, payload).statements = <<>>
    /\ /\ UpdateColumns # <<>> /\ \A c \in 1..Len(UpdateColumns) : IsName(UpdateColumns[c])
       /\ descriptor.table = TableUsers /\ buildWhereClause(descriptor).ok
       => translated.result.ok
    /\ translated.result.ok =>
         /\ Len(Statements) = 1
         /\ Statements[1].sql
              = <<"U", "P", "D", "A", "T", "E", " ", "\"", "u", "s", "e", "r", "s", "\"", " ", "S", "E", "T", " ">>
                  \o JoinWith([c \in 1..Len(UpdateColumns) |-> QuotedName(UpdateColumns[c]) \o <<" ", "=", " ", "?">>], <<",", " ">>)
                  \o WhereAsStated \o <<" ", "R", "E", "T", "U", "R", "N", "I", "N", "G", " ", "*">>
         /\ Statements[1].params
              = [c \in 1..Len(UpdateColumns) |-> Bound(payload[2][c].val)]
                  \o buildWhereClause(descriptor).v.params

\* C20 is reached: the update {age: 31} where name eq Alice on users has been translated
UpdateOfAgeTranslated ==
  /\ translated.op = "update"
  /\ descriptor = UpdateSample /\ payload = UpdatePayload
  /\ translated.result
       = Ok(TranslatedQuery(<<"U", "P", "D", "A", "T", "E", " ", "\"", "u", "s", "e", "r", "s", "\"", " ", "S", "E", "T", " ", "\"", "a", "g", "e", "\"", " ", "=", " ", "?", " ", "W", "H", "E", "R", "E", " ", "\"", "n", "a", "m", "e", "\"", " ", "=", " ", "?", " ", "R", "E", "T", "U", "R", "N", "I", "N", "G", " ", "*">>,
                            <<JsNum(31), JsStr(<<"A", "l", "i", "c", "e">>)>>))

----------------------------------------------------------------------------
(* Further properties of the adapter                                        *)

\* C17: no param the adapter binds to an engine statement is undefined, a boolean or a
\* date object, whether the statement was translated from a query or given to rawQuery
BoundParamsNormalized ==
  \A i \in 1..Len(calls) : \A k \in 1..calls[i].executed :
    \A p \in 1..Len(calls[i].statements[k].params) :
      calls[i].statements[k].params[p][1] \notin {"undef", "bool", "date"}

----------------------------------------------------------------------------
(* Properties of the select list and of the statement as a whole           *)

\* the characters of the translator's own syntax and of validated names and numbers
SyntaxChars ==
  NameChar \cup {" ", "*", "(", ")", ",", ".", "=", "?", "<", ">", "!"}

\* ScanText reads sql[lo..hi] entering in quote state quote ("" outside any quote) and
\* tells whether every character outside '...' and "..." is of SyntaxChars, and the
\* quote state left in
RECURSIVE ScanText(_, _, _, _)
ScanText(sql, lo, hi, quote) ==
  LET One(char) ==
        IF quote # "" THEN [safe |-> TRUE, inQuote |-> IF char = quote THEN "" ELSE quote]
        ELSE IF char \in {"'", "\""} THEN [safe |-> TRUE, inQuote |-> char]
        ELSE [safe |-> char \in SyntaxChars, inQuote |-> quote]
      Both(left, right) == [safe |-> left.safe /\ right.safe, inQuote |-> right.inQuote]
      Halves(mid) ==
        LET After(left) == Both(left, ScanText(sql, mid + 1, hi, left.inQuote))
        IN  After(ScanText(sql, lo, mid, quote))
  IN  IF lo > hi THEN [safe |-> TRUE, inQuote |-> quote]
      ELSE IF lo = hi THEN One(sql[lo])
      ELSE Halves((lo + hi) \div 2)
\* every quote is closed, and outside the quotes there is nothing but syntax
SafeText(sql) == ScanText(sql, 1, Len(sql), "") = [safe |-> TRUE, inQuote |-> ""]

\* C21: the text of every statement is injection-safe: what the caller supplied is in it
\* only as quoted identifier segments, function names, numbers, the wildcard, LIMIT and
\* OFFSET integers, or a single well-formed quoted literal, so outside its quoted parts
\* a statement holds no character but those of names, numbers and the translator's own
\* syntax, and every quote in it is closed
InjectionSafe ==
  \A i \in 1..Len(Statements) : SafeText(Statements[i].sql)

\* the commas of an argument text at parenthesis depth 0, and the arguments between them
Depth(text, i) ==
  Cardinality({k \in 1..(i - 1) : text[k] = "("}) - Cardinality({k \in 1..(i - 1) : text[k] = ")"})
TopCommas(text) == {i \in 1..Len(text) : text[i] = "," /\ Depth(text, i) = 0}
HasEmptyArgument(text) ==
  \E lo \in TopCommas(text) \cup {0} : \E hi \in TopCommas(text) \cup {Len(text) + 1} :
    /\ lo < hi
    /\ \A i \in TopCommas(text) : ~(lo < i /\ i < hi)
    /\ Trim(SubSeq(text, lo + 1, hi - 1)) = <<>>

\* C22: a select whose field is a function call with an empty argument list or with an
\* empty argument between its top-level commas is refused
EmptyArgumentRefused ==
  /\ translated.op = "select"
  /\ \E f \in 1..Len(descriptor.selectFields) :
       /\ FunctionShape(Trim(descriptor.selectFields[f]))
       /\ HasEmptyArgument(FunctionArgs(Trim(descriptor.selectFields[f])))
  => ~translated.result.ok

\* a limit or offset that is present and is not a non-negative integer
BadPaging(n) == n \notin {JsNull, JsUndef} /\ ~(n[1] = "num" /\ n[2] >= 0)
SelectRefused ==
  \/ descriptor.table \in {JsNull, JsStr(<<>>)}
  \/ descriptor.nestedSelects # <<>>
  \/ BadPaging(descriptor.limitValue) \/ BadPaging(descriptor.offsetValue)
  \/ \E o \in 1..Len(descriptor.orderBy) :
       Lowered(descriptor.orderBy[o].direction) \notin {<<"a", "s", "c">>, <<"d", "e", "s", "c">>}

\* C23: translateSelect throws a translation error and gives no statement when the table
\* is null or empty, there are nested selects, the limit or the offset is present and is
\* not a non-negative integer, or an order direction is neither asc nor desc in any case;
\* a statement has no LIMIT for a null limit and no OFFSET for a null offset, and begins
\* SELECT * FROM for an empty select list
SelectRefusedAsStated ==
  translated.op = "select" =>
    /\ SelectRefused =>
         /\ ~translated.result.ok /\ translated.result.err = "SqliteTranslationError"
         /\ Statements = <<>>
    /\ translated.result.ok =>
         /\ descriptor.limitValue = JsNull => ~Includes(translated.result.v.sql, <<"L", "I", "M", "I", "T">>)
         /\ descriptor.offsetValue = JsNull => ~Includes(translated.result.v.sql, <<"O", "F", "F", "S", "E", "T">>)
         /\ descriptor.limitValue = JsNum(10) => Includes(translated.result.v.sql, <<" ", "L", "I", "M", "I", "T", " ", "1", "0">>)
         /\ descriptor.selectFields = <<>> => StartsWith(translated.result.v.sql, <<"S", "E", "L", "E", "C", "T", " ", "*", " ", "F", "R", "O", "M", " ">>)

\* C23 is reached: a select on users with offset -1 and nothing else amiss has been
\* refused
NegativeOffsetRefused ==
  /\ translated.op = "select"
  /\ descriptor.table = TableUsers /\ descriptor.nestedSelects = <<>>
  /\ descriptor.selectFields = <<>> /\ descriptor.joins = <<>> /\ descriptor.orderBy = <<>>
  /\ descriptor.limitValue = JsNum(10) /\ descriptor.offsetValue = JsNum(0 - 1)
  /\ ~translated.result.ok


(* Properties of the query builder's setters *)
FieldsOf(fields) ==
  IF fields[1] = "str" /\ Contains(fields[2], ",")
  THEN [i \in 1..Len(SplitChar(fields[2], ",")) |-> Trim(SplitChar(fields[2], ",")[i])]
  ELSE IF fields[1] = "str" THEN <<Trim(fields[2])>> ELSE fields[2]

\* what the accessors of a builder return after the setter call name(a) when they
\* returned old before it
AfterSetter(old, name, a) ==
  CASE name = "from" -> [old EXCEPT !.table = JsStr(a[1])]
    [] name = "limit" -> [old EXCEPT !.limitValue = a[1]]
    [] name = "offset" -> [old EXCEPT !.offsetValue = a[1]]
    [] name = "select" -> [old EXCEPT !.selectFields = FieldsOf(a[1])]
    [] name = "where" -> [old EXCEPT !.whereConditions = Append(@, Cond(a[1], a[2], a[3]))]
    [] name = "whereIn" -> [old EXCEPT !.whereConditions = Append(@, Cond(a[1], "in", JsArr(a[2])))]
    [] name = "whereOr" -> [old EXCEPT !.whereOrConditions = Append(@, a[1])]
    [] name = "order" ->
         [old EXCEPT !.orderBy = Append(@, Order(a[1], IF a[2] = JsUndef THEN <<"a", "s", "c">> ELSE a[2][2]))]
    [] name = "join" ->
         [old EXCEPT !.joins = Append(@, Join(a[1], a[2], IF a[3] = JsUndef THEN <<"i", "n", "n", "e", "r">> ELSE a[3][2]))]
    [] name = "nestedSelect" -> [old EXCEPT !.nestedSelects = Append(@, NestedSelect(a[1], a[2]))]

\* C24: a new builder returns null for table, limit and offset and empty lists; a setter
\* call on a builder changes what its accessors return in exactly one place: from, limit
\* and offset store their argument, select replaces the field list, and where, whereIn,
\* whereOr, order, join and nestedSelect append one entry at the end of their list, whereIn
\* with operator in, order with direction asc and join with type inner when that argument
\* is omitted; the builder the call was made on stays the same builder
SettersRecorded ==
  [][/\ lastCall.name = "new" =>
          Accessors("d") = Descriptor(JsNull, <<>>, <<>>, <<>>, <<>>, JsNull, JsNull, <<>>, <<>>)
     /\ \A b \in {"d", "c"} :
          SetterCall(b) =>
            /\ Accessors(b)' = AfterSetter(Accessors(b), lastCall'.name, lastCall'.args)
            /\ Live(b)']_vars

\* C24 is reached: order was called without a direction after a where and a whereIn, and
\* the accessors show the two conditions in call order and the ascending order entry
SettersRecordedInOrder ==
  /\ lastCall.target = "d" /\ lastCall.name = "order" /\ lastCall.args[2] = JsUndef
  /\ getWhereConditions("d") = <<Cond(<<"i", "d">>, "eq", JsNum(5)), Cond(<<"i", "d">>, "in", JsArr(<<JsNum(1), JsNum(2)>>))>>
  /\ getOrderBy("d") = <<Order(<<"a", "g", "e">>, <<"a", "s", "c">>)>>

(* Properties of the admin service's adapter *)
\* the step is an operation of the admin service
AdminOperation == modules'.noted.call = "getSqliteAdapter" /\ modules' # modules
EnvPath == PathResolve(Cwd, modules.env)

\* C25: an admin operation made while an adapter is registered (registered last and not
\* cleared since) runs on that adapter and constructs none; made while none is registered
\* it runs on a SQLite adapter of the environment's database path: the one the admin
\* operation before it ran on when no registration or clearing came between and that path
\* is the same, and a newly constructed one otherwise
AdminAdapterAsStated ==
  [][AdminOperation =>
       IF modules.noted.registered # Null
       THEN /\ modules'.noted.admin = modules.noted.registered
            /\ ~modules'.noted.constructed
            /\ modules'.adapters = modules.adapters
       ELSE IF modules.noted.admin # Null
               /\ modules.adapters[modules.noted.admin].database_path = EnvPath
            THEN /\ modules'.noted.admin = modules.noted.admin
                 /\ ~modules'.noted.constructed
                 /\ modules'.adapters = modules.adapters
            ELSE /\ modules'.noted.admin = Len(modules.adapters) + 1
                 /\ modules'.noted.constructed
                 /\ modules'.adapters = Append(modules.adapters, Adapter("sqlite", EnvPath))]_vars

\* C25 is reached: two adapters were registered one after the other and the admin
\* operation ran on the second
AdminOnLastRegistered ==
  /\ modules.noted.call = "getSqliteAdapter"
  /\ modules.noted.registered = 2 /\ modules.noted.admin = 2
  /\ modules.singletonInstance = Null /\ Len(modules.adapters) = 2

\* C26: an admin operation made when the adapter getHazoConnectSingleton returned last is
\* a SQLite adapter runs on that adapter
AdminOnSingleton ==
  [][(AdminOperation /\ IsSqliteAdapter(modules, modules.noted.returned)) =>
       modules'.noted.admin = modules.noted.returned]_vars

(* Properties of the snapshot write of a mutating call *)
\* C27: when the snapshot write of a call ends with EACCES, EROFS or ENOENT, from mkdir or
\* from writeFile, the call resolves with the rows it had, without an error, and the
\* engine's data and the file stay as they were; when it ends with another failure the
\* call rejects with the error of that code
SnapshotFailureAsStated ==
  [][\A i \in 1..MaxCalls :
       (calls[i].pc = "persist" /\ calls'[i].pc # "persist") =>
         /\ calls'[i].io \in BenignCodes =>
              /\ calls'[i].pc = "resolved" /\ calls'[i].rows = calls[i].rows
              /\ calls'[i].error = NoError
              /\ db' = db /\ disk' = disk
         /\ calls'[i].io \notin BenignCodes \cup {"ok"} =>
              /\ calls'[i].pc = "rejected"
              /\ calls'[i].error.code = calls'[i].io /\ calls'[i].error.site = "io"]_vars

\* C27 is reached: an insert resolved with its rows although the snapshot write ended with
\* EROFS, and the engine holds the inserted rows the file does not have
ResolvedWithoutSnapshot ==
  /\ calls[1].request = "postRows" /\ calls[1].pc = "resolved" /\ calls[1].io = "EROFS"
  /\ db = calls[1].snap /\ db # disk /\ db.rows # <<>>

\* C29: once every call has resolved, each of them a mutating call whose snapshot was
\* written to the file, the file holds the engine's data
SnapshotHoldsEveryCall ==
  (\A i \in 1..MaxCalls :
     calls[i].pc = "resolved" /\ calls[i].persists /\ calls[i].persisted = "written")
  => disk = db

(* The two compilers of WHERE clauses *)
SameOutcome(one, other) == one.ok = other.ok /\ (one.ok => one.v = other.v)
FlatUnqualified(conditions) ==
  \A i \in 1..Len(conditions) :
    "field" \in DOMAIN conditions[i] /\ ~Contains(conditions[i].field, ".")

\* C28: on a list of flat conditions over unqualified field names build_where_clause
\* returns the clause text and the params the statement translator's WHERE compilation
\* returns, or both fail
WhereCompilersAgree ==
  (translated.op = "filters" /\ FlatUnqualified(descriptor.whereConditions))
    => SameOutcome(translated.result, buildWhereClause(descriptor))

(* What translateUpdate and translateDelete read of the descriptor *)
\* the descriptor with only its table, flat conditions and OR-groups
TableAndWhere(builder) ==
  Descriptor(builder.table, <<>>, builder.whereConditions, builder.whereOrConditions,
             <<>>, JsNull, JsNull, <<>>, <<>>)
Retranslated(op, builder) ==
  IF op = "update" THEN translateUpdate(builder, payload) ELSE translateDelete(builder)
SelectOnlyWords == {<<" ", "L", "I", "M", "I", "T", " ">>, <<" ", "O", "F", "F", "S", "E", "T", " ">>, <<" ", "O", "R", "D", "E", "R", " ", "B", "Y", " ">>, <<" ", "J", "O", "I", "N", " ">>}

\* C30: translateUpdate and translateDelete return for a descriptor what they return for
\* the descriptor with its select fields, joins, order, limit, offset and nested selects
\* taken away, and the statement contains no LIMIT, OFFSET, ORDER BY or JOIN
UpdateDeleteReadWhereOnly ==
  translated.op \in {"update", "delete"} =>
    /\ translated.result = Retranslated(translated.op, TableAndWhere(descriptor))
    /\ \A i \in 1..Len(Statements) : \A word \in SelectOnlyWords :
         ~Includes(Statements[i].sql, word)

\* C30 is reached: a delete was translated for a descriptor with a join, an order, a
\* nested select and a limit that translateSelect refuses
DeleteIgnoredSelectParts ==
  /\ translated.op = "delete" /\ translated.result.ok
  /\ descriptor.joins # <<>> /\ descriptor.orderBy # <<>> /\ descriptor.nestedSelects # <<>>
  /\ descriptor.selectFields # <<>> /\ descriptor.limitValue = JsNum(0 - 1)
  /\ translated.result.v.sql = <<"D", "E", "L", "E", "T", "E", " ", "F", "R", "O", "M", " ", "\"", "u", "s", "e", "r", "s", "\"", " ", "R", "E", "T", "U", "R", "N", "I", "N", "G", " ", "*">>
=============================================================================
